---------------------------- MODULE Spec2Model ----------------------------
(***************************************************************************)
(* A model of the faren-canon front end: lex (parser/lexer.rs), the        *)
(* SymbolsTable (parser/symbols_table.rs), parse_expression,               *)
(* parse_statement and parse_root (parser/mod.rs).                         *)
(*                                                                         *)
(* A source text is a sequence of one-character strings.  A Rust panic     *)
(* (expect/unwrap on None, panic!) is a result whose field panic is TRUE.  *)
(* The token lists that AST nodes keep for unparse() are not modelled.     *)
(***************************************************************************)
EXTENDS Integers, Sequences, FiniteSets, TLC

(***************************************************************************)
(* Characters                                                              *)
(***************************************************************************)
Digits == {"0", "1", "2", "3", "4", "5", "6", "7", "8", "9"}

Letters ==
    {"a", "b", "c", "d", "e", "f", "g", "h", "i", "j", "k", "l", "m",
     "n", "o", "p", "q", "r", "s", "t", "u", "v", "w", "x", "y", "z",
     "A", "B", "C", "D", "E", "F", "G", "H", "I", "J", "K", "L", "M",
     "N", "O", "P", "Q", "R", "S", "T", "U", "V", "W", "X", "Y", "Z"}

DigitValue ==
    "0" :> 0 @@ "1" :> 1 @@ "2" :> 2 @@ "3" :> 3 @@ "4" :> 4 @@
    "5" :> 5 @@ "6" :> 6 @@ "7" :> 7 @@ "8" :> 8 @@ "9" :> 9

\* largest value of an i32 (num.parse::<i32>() fails above it)
I32Max == 2147483647

\* Option::None of the Rust code
None == [kind |-> "None"]

(***************************************************************************)
(* Tokens (parser/token.rs)                                                *)
(***************************************************************************)
Token_new_identifier(info, name) == [type |-> "Identifier", info |-> info, name |-> name]
Token_new_type(info, vtype) == [type |-> "Type", info |-> info, vtype |-> vtype]
Token_new_symbol(info, sym) == [type |-> "Symbol", info |-> info, sym |-> sym]
Token_new_arithmetic(info, op) == [type |-> "Arithmetic", info |-> info, op |-> op]
Token_new_comparison(info, op) == [type |-> "Comparison", info |-> info, op |-> op]
Token_new_boolean(info, op) == [type |-> "Boolean", info |-> info, op |-> op]
Token_new_integer_literal(info, value) == [type |-> "IntegerLiteral", info |-> info, value |-> value]
Token_new_boolean_literal(info, value) == [type |-> "BooleanLiteral", info |-> info, value |-> value]

\* token.get_type() == TokenType::Symbol and its sym() is s
IsSym(token, s) == token.type = "Symbol" /\ token.sym = s

(***************************************************************************)
(* Lexer (parser/lexer.rs)                                                 *)
(***************************************************************************)
\* a make_info whose column_end is the length of the token alone
make_info_length_only(line, column_begin, token_len) ==
    [line |-> line, column_begin |-> column_begin,
     column_end |-> token_len - 1]

make_info(line, column_begin, token_len) ==
    [line |-> line, column_begin |-> column_begin,
     column_end |-> column_begin + token_len - 1]

\* the words the lexer tells apart from plain identifiers
KwTrue == <<"t", "r", "u", "e">>
KwFalse == <<"f", "a", "l", "s", "e">>
KwVoid == <<"v", "o", "i", "d">>
KwInt == <<"i", "n", "t">>
KwBool == <<"b", "o", "o", "l">>
KwAnd == <<"a", "n", "d">>
KwOr == <<"o", "r">>

\* the number of characters of data from position i on that lie in class
RECURSIVE RunLength(_, _, _)
RunLength(data, i, class) ==
    IF i <= Len(data) /\ data[i] \in class
    THEN 1 + RunLength(data, i + 1, class)
    ELSE 0

\* Option::Some(v) of the Rust code
Some(v) == [kind |-> "Some", value |-> v]

\* num.parse::<i32>() on a digit run: Some(value), or None on overflow
RECURSIVE ParseI32From(_, _, _)
ParseI32From(num, i, acc) ==
    IF i > Len(num) THEN Some(acc)
    ELSE LET d == DigitValue[num[i]] IN
         IF acc > (I32Max - d) \div 10 THEN None
         ELSE ParseI32From(num, i + 1, acc * 10 + d)

ParseI32(num) == ParseI32From(num, 1, 0)

\* the token of an identifier run
WordToken(info, ident) ==
    CASE ident = KwTrue -> Token_new_boolean_literal(info, TRUE)
      [] ident = KwFalse -> Token_new_boolean_literal(info, FALSE)
      [] ident = KwVoid -> Token_new_type(info, "Void")
      [] ident = KwInt -> Token_new_type(info, "Integer")
      [] ident = KwBool -> Token_new_type(info, "Boolean")
      [] ident = KwAnd -> Token_new_boolean(info, "And")
      [] ident = KwOr -> Token_new_boolean(info, "Or")
      [] OTHER -> Token_new_identifier(info, ident)

ArithmeticOf == "+" :> "Add" @@ "-" :> "Subtract" @@ "*" :> "Multiply" @@ "/" :> "Divide"

SymbolOf ==
    "(" :> "LeftParen" @@ ")" :> "RightParen" @@ "{" :> "LeftBrace" @@
    "}" :> "RightBrace" @@ ";" :> "Semicolon"

\* the `=`, `!`, `<`, `>` arms: the token with and without a following `=`
TwoCharToken(c, info, followed) ==
    CASE c = "=" -> IF followed THEN Token_new_comparison(info, "IsEqual")
                    ELSE Token_new_symbol(info, "Equal")
      [] c = "!" -> IF followed THEN Token_new_comparison(info, "IsNotEqual")
                    ELSE Token_new_symbol(info, "Bang")
      [] c = "<" -> IF followed THEN Token_new_comparison(info, "IsLessOrEqual")
                    ELSE Token_new_comparison(info, "IsLess")
      [] c = ">" -> IF followed THEN Token_new_comparison(info, "IsGreaterOrEqual")
                    ELSE Token_new_comparison(info, "IsGreater")

\* the `while let Some(c) = chars.next()` loop of lex
RECURSIVE lex_loop(_, _, _, _, _)
lex_loop(data, i, line, column, tokens) ==
    IF i > Len(data) THEN tokens
    ELSE
    LET c == data[i] IN
    CASE c \in {" ", "\t"} ->
            lex_loop(data, i + 1, line, column + 1, tokens)
      [] c = "\n" ->
            lex_loop(data, i + 1, line + 1, 1, tokens)
      [] c \in {"+", "-", "*", "/"} ->
            lex_loop(data, i + 1, line, column + 1,
                     Append(tokens, Token_new_arithmetic(make_info(line, column, 1), ArithmeticOf[c])))
      [] c \in Digits ->
            LET token_len == 1 + RunLength(data, i + 1, Digits)
                num == SubSeq(data, i, i + token_len - 1)
                info == make_info(line, column, token_len)
                val == ParseI32(num)
            IN  lex_loop(data, i + token_len, line, column + token_len,
                         IF val = None THEN tokens
                         ELSE Append(tokens, Token_new_integer_literal(info, val.value)))
      [] c \in Letters \cup {"_"} ->
            LET token_len == 1 + RunLength(data, i + 1, Letters \cup Digits \cup {"_"})
                ident == SubSeq(data, i, i + token_len - 1)
                info == make_info(line, column, token_len)
            IN  lex_loop(data, i + token_len, line, column + token_len,
                         Append(tokens, WordToken(info, ident)))
      [] c \in {"=", "!", "<", ">"} ->
            LET followed == i + 1 <= Len(data) /\ data[i + 1] = "="
                token_len == IF followed THEN 2 ELSE 1
                info == make_info(line, column, token_len)
            IN  lex_loop(data, i + token_len, line, column + token_len,
                         Append(tokens, TwoCharToken(c, info, followed)))
      [] c \in {"(", ")", "{", "}", ";"} ->
            lex_loop(data, i + 1, line, column + 1,
                     Append(tokens, Token_new_symbol(make_info(line, column, 1), SymbolOf[c])))
      [] OTHER ->
            lex_loop(data, i + 1, line, column, tokens)

lex(data) == lex_loop(data, 1, 1, 1, <<>>)


(***************************************************************************)
(* Symbol table (parser/symbols_table.rs, data/vtype.rs)                   *)
(***************************************************************************)
\* number of values of a u16 (the type of next_id)
U16Size == 65536

\* HashMap::new()
EmptyMap == [k \in {} |-> None]

\* HashMap::insert
MapInsert(m, k, v) == [x \in DOMAIN m \cup {k} |-> IF x = k THEN v ELSE m[x]]

\* HashMap::get
MapGet(m, k) == IF k \in DOMAIN m THEN Some(m[k]) ELSE None

Parameter_new(id, vtype) == [id |-> id, vtype |-> vtype]

FunctionSignature_new(name, return_type, parameters) ==
    [name |-> name, return_type |-> return_type, parameters |-> parameters]

\* a Scope::new that copies nothing from the parent
Scope_new_empty(parent) ==
    [name_to_id |-> EmptyMap, id_to_type |-> EmptyMap]

Scope_new(parent) ==
    IF parent = None
    THEN [name_to_id |-> EmptyMap, id_to_type |-> EmptyMap]
    ELSE [name_to_id |-> parent.value.name_to_id, id_to_type |-> parent.value.id_to_type]

Scope_define(scope, name, id, vtype) ==
    [name_to_id |-> MapInsert(scope.name_to_id, name, id),
     id_to_type |-> MapInsert(scope.id_to_type, id, vtype)]

Scope_lookup_id(scope, name) == MapGet(scope.name_to_id, name)

Scope_lookup_type(scope, id) == MapGet(scope.id_to_type, id)

SymbolsTable_new == [functions |-> EmptyMap, scopes |-> <<>>, next_id |-> 0]

\* scopes.front()
FrontScope(st) == IF st.scopes = <<>> THEN None ELSE Some(Head(st.scopes))

\* a define_function that never panics
define_function_replaces(st, name) == FALSE

\* define_function panics when the name is already a key of functions
define_function_panics(st, name) == name \in DOMAIN st.functions

define_function(st, name, return_type, parameters) ==
    [st EXCEPT !.functions =
        MapInsert(@, name, FunctionSignature_new(name, return_type, parameters))]

get_function(st, name) == MapGet(st.functions, name)

push_scope(st) == [st EXCEPT !.scopes = <<Scope_new(FrontScope(st))>> \o @]

pop_scope(st) == [st EXCEPT !.scopes = IF @ = <<>> THEN @ ELSE Tail(@)]

\* whether the build checks arithmetic overflow (rustc's default without
\* --release; the repository sets no profile)
VARIABLE overflow_checks

\* `self.next_id += 1` overflows: a panic when the build checks arithmetic
\* overflow, a wrap to 0 when it does not
define_overflows(st) == st.next_id = U16Size - 1

\* define panics with `attempt to add with overflow`
define_panics(st) == overflow_checks /\ define_overflows(st)

\* define where it does not panic: next_id is a u16 and the increment of a
\* build without overflow checks is taken modulo 2^16
define(st, name, vtype) ==
    LET id == st.next_id IN
    [st EXCEPT !.next_id = (id + 1) % U16Size,
               !.scopes = IF @ = <<>> THEN @
                          ELSE <<Scope_define(Head(@), name, id, vtype)>> \o Tail(@)]

scope(st) == Len(st.scopes)

lookup(st, name) ==
    IF st.scopes = <<>> THEN None
    ELSE LET id == Scope_lookup_id(Head(st.scopes), name) IN
         IF id = None THEN None ELSE Scope_lookup_type(Head(st.scopes), id.value)

get_id(st, name) ==
    IF st.scopes = <<>> THEN None ELSE Scope_lookup_id(Head(st.scopes), name)

(***************************************************************************)
(* Diagnostics and recovery (parser/mod.rs)                                *)
(***************************************************************************)
\* the least position of a set of positions, or `otherwise` when it is empty
FirstOf(positions, otherwise) ==
    IF positions = {} THEN otherwise
    ELSE CHOOSE j \in positions : \A k \in positions : j <= k

\* the position of the first `\n` of the text at or after i, or
\* Len(text) + 1
NextNewline(text, i) ==
    FirstOf({j \in i..Len(text) : text[j] = "\n"}, Len(text) + 1)

\* the line from i that ends before the `\n` at j, or with the text (j =
\* Len(text) + 1): a line that ends with `\r\n` loses the `\r` as well, a
\* `\r` at the end of a text that does not end with `\n` stays
LineBefore(text, i, j) ==
    SubSeq(text, i,
           IF j <= Len(text) /\ j > i /\ text[j - 1] = "\r" THEN j - 2 ELSE j - 1)

RECURSIVE SplitLines(_, _, _)
RECURSIVE SplitLinesAt(_, _, _, _)

\* the lines from i on, the first of them ending at j
SplitLinesAt(text, i, lines, j) ==
    SplitLines(text, j + 1, Append(lines, LineBefore(text, i, j)))

\* str::lines(): the pieces between the line endings `\n` and `\r\n`,
\* without a final empty piece
SplitLines(text, i, lines) ==
    IF i > Len(text) THEN lines
    ELSE SplitLinesAt(text, i, lines, NextNewline(text, i))

\* nth(n).unwrap_or_default()
NthOrDefault(lines, n) == IF n + 1 \in DOMAIN lines THEN lines[n + 1] ELSE <<>>

\* source.lines().nth(n).unwrap_or_default()
LineAt(source, n) == NthOrDefault(SplitLines(source, 1, <<>>), n)

\* a ParserContext
Context(source, tokens, symbols_table, errors) ==
    [source |-> source, tokens |-> tokens, symbols_table |-> symbols_table,
     errors |-> errors]

\* message is the format string followed by its arguments; a backquote of
\* the Rust text is written ' here
record_error(parser_context, message, info) ==
    [parser_context EXCEPT !.errors = Append(@,
        [message |-> message,
         line |-> info.line,
         column_begin |-> info.column_begin,
         column_end |-> info.column_end,
         context_line |-> LineAt(parser_context.source, info.line - 1)])]

\* a recovery that stops at a Semicolon only
RECURSIVE recover_to_semicolon(_)
recover_to_semicolon(tokens) ==
    IF tokens = <<>> THEN <<>>
    ELSE IF IsSym(Head(tokens), "Semicolon")
         THEN Tail(tokens)
         ELSE recover_to_semicolon(Tail(tokens))

RECURSIVE recover_token_stream(_)
recover_token_stream(tokens) ==
    IF tokens = <<>> THEN <<>>
    ELSE IF IsSym(Head(tokens), "Semicolon") \/ IsSym(Head(tokens), "RightBrace")
         THEN Tail(tokens)
         ELSE recover_token_stream(Tail(tokens))

\* the context a parser_error! leaves behind (the macro then returns None)
parser_error(parser_context, info, message) ==
    LET recorded == record_error(parser_context, message, info) IN
    [recorded EXCEPT !.tokens = recover_token_stream(@)]

\* the context a failed next_token! leaves behind (the macro then returns None)
next_token_error(parser_context, last_token, expected_desc) ==
    LET recorded == record_error(parser_context,
                        <<"tokens should not end here, expected ", expected_desc>>,
                        last_token.info) IN
    [recorded EXCEPT !.tokens = <<>>]

\* what a parse function hands back: the context as it leaves it, the
\* Option it returns, and whether it panicked instead of returning
Return(parser_context, result) ==
    [ctx |-> parser_context, result |-> result, panic |-> FALSE]

Panic(parser_context) ==
    [ctx |-> parser_context, result |-> None, panic |-> TRUE]

(***************************************************************************)
(* Expressions (ast/expression.rs, ast/literal.rs)                         *)
(***************************************************************************)
Literal_new_integer(value) == [ltype |-> "IntegerLiteral", value |-> value]

Literal_new_boolean(value) == [ltype |-> "BooleanLiteral", value |-> value]

Expression_new_literal(literal) == [etype |-> "Literal", literal |-> literal]

Expression_new_function_call(vtype, name, passed_arguments) ==
    [etype |-> "FunctionCall", vtype |-> vtype, name |-> name,
     passed_arguments |-> passed_arguments]

Expression_new_variable(vtype, identifier) ==
    [etype |-> "Variable", vtype |-> vtype, identifier |-> identifier]

Expression_new_arithmetic(vtype, op, left, right) ==
    [etype |-> "Arithmetic", vtype |-> vtype, op |-> op, left |-> left, right |-> right]

Expression_new_comparison(op, left, right) ==
    [etype |-> "Comparison", op |-> op, left |-> left, right |-> right]

Expression_new_boolean(op, left, right) ==
    [etype |-> "Boolean", op |-> op, left |-> left, right |-> right]

(***************************************************************************)
(* parse_expression (parser/mod.rs)                                        *)
(***************************************************************************)
KwInvoke == <<"i", "n", "v", "o", "k", "e">>

\* the local enum Operator of the operator a token stands for
OperatorOf(token) ==
    CASE token.op = "Add" -> "Add"
      [] token.op = "Subtract" -> "Sub"
      [] token.op = "Multiply" -> "Mul"
      [] token.op = "Divide" -> "Div"
      [] token.op = "IsEqual" -> "Eq"
      [] token.op = "IsNotEqual" -> "Neq"
      [] token.op = "IsGreater" -> "Gt"
      [] token.op = "IsGreaterOrEqual" -> "Gte"
      [] token.op = "IsLess" -> "Lt"
      [] token.op = "IsLessOrEqual" -> "Lte"
      [] token.op = "And" -> "And"
      [] token.op = "Or" -> "Or"

\* a precedence that puts Add and Sub above Mul and Div
precedence_of_sums_first(op) ==
    CASE op \in {"Mul", "Div"} -> 2
      [] op \in {"Add", "Sub"} -> 3
      [] op \in {"Gt", "Gte", "Lt", "Lte", "Eq", "Neq"} -> 1
      [] op = "And" -> 0
      [] op = "Or" -> 0

\* the precedence (every operator is Assoc::Left)
precedence_of(op) ==
    CASE op \in {"Mul", "Div"} -> 3
      [] op \in {"Add", "Sub"} -> 2
      [] op \in {"Gt", "Gte", "Lt", "Lte", "Eq", "Neq"} -> 1
      [] op = "And" -> 0
      [] op = "Or" -> 0

\* the node apply_operator builds from lhs and rhs
OperatorNode(op, lhs, rhs) ==
    CASE op = "Add" -> Expression_new_arithmetic("Integer", "Add", lhs, rhs)
      [] op = "Sub" -> Expression_new_arithmetic("Integer", "Subtract", lhs, rhs)
      [] op = "Mul" -> Expression_new_arithmetic("Integer", "Multiply", lhs, rhs)
      [] op = "Div" -> Expression_new_arithmetic("Integer", "Divide", lhs, rhs)
      [] op = "Eq" -> Expression_new_comparison("IsEqual", lhs, rhs)
      [] op = "Neq" -> Expression_new_comparison("IsNotEqual", lhs, rhs)
      [] op = "Gt" -> Expression_new_comparison("IsGreater", lhs, rhs)
      [] op = "Gte" -> Expression_new_comparison("IsGreaterOrEqual", lhs, rhs)
      [] op = "Lt" -> Expression_new_comparison("IsLess", lhs, rhs)
      [] op = "Lte" -> Expression_new_comparison("IsLessOrEqual", lhs, rhs)
      [] op = "And" -> Expression_new_boolean("And", lhs, rhs)
      [] op = "Or" -> Expression_new_boolean("Or", lhs, rhs)

\* stack.pop().expect(..) twice, then the push: panics on fewer than two
apply_operator(op, stack) ==
    IF Len(stack) < 2
    THEN [panic |-> TRUE, stack |-> stack]
    ELSE [panic |-> FALSE,
          stack |-> Append(SubSeq(stack, 1, Len(stack) - 2),
                           OperatorNode(op, stack[Len(stack) - 1], stack[Len(stack)]))]

\* `while let Some(&top_op) = operator_stack.last()` of an operator token
RECURSIVE reduce_operators(_, _, _)
reduce_operators(prec, operator_stack, output_stack) ==
    IF operator_stack = <<>>
    THEN [panic |-> FALSE, operator_stack |-> operator_stack, output_stack |-> output_stack]
    ELSE LET top_op == operator_stack[Len(operator_stack)]
             should_apply == prec <= precedence_of(top_op)
         IN  IF should_apply
             THEN LET applied == apply_operator(top_op, output_stack) IN
                  IF applied.panic
                  THEN [panic |-> TRUE, operator_stack |-> operator_stack,
                        output_stack |-> output_stack]
                  ELSE reduce_operators(prec,
                           SubSeq(operator_stack, 1, Len(operator_stack) - 1),
                           applied.stack)
             ELSE [panic |-> FALSE, operator_stack |-> operator_stack,
                   output_stack |-> output_stack]

\* `while let Some(op) = operator_stack.pop()` after the token loop
RECURSIVE drain_operators(_, _)
drain_operators(operator_stack, output_stack) ==
    IF operator_stack = <<>>
    THEN [panic |-> FALSE, stack |-> output_stack]
    ELSE LET applied == apply_operator(operator_stack[Len(operator_stack)], output_stack) IN
         IF applied.panic THEN applied
         ELSE drain_operators(SubSeq(operator_stack, 1, Len(operator_stack) - 1),
                              applied.stack)

\* the loops that pop tokens up to the close symbol matching an open one
\* already consumed (depth starts at 1); rest is the queue they leave
RECURSIVE take_balanced(_, _, _, _, _)
take_balanced(tokens, open, close, depth, sub_tokens) ==
    IF tokens = <<>>
    THEN [sub_tokens |-> sub_tokens, rest |-> <<>>, depth |-> depth]
    ELSE LET next_token == Head(tokens) IN
         IF IsSym(next_token, close) /\ depth = 1
         THEN [sub_tokens |-> sub_tokens, rest |-> Tail(tokens), depth |-> 0]
         ELSE take_balanced(Tail(tokens), open, close,
                  IF IsSym(next_token, open) THEN depth + 1
                  ELSE IF IsSym(next_token, close) THEN depth - 1
                  ELSE depth,
                  Append(sub_tokens, next_token))

\* the split of a call's tokens at every Comma; a last window is kept only
\* when it is not empty
RECURSIVE split_arguments(_, _, _)
split_arguments(sub_tokens, expressions_passed, current_expression) ==
    IF sub_tokens = <<>>
    THEN IF Len(current_expression) # 0
         THEN Append(expressions_passed, current_expression)
         ELSE expressions_passed
    ELSE IF IsSym(Head(sub_tokens), "Comma")
         THEN split_arguments(Tail(sub_tokens),
                  Append(expressions_passed, current_expression), <<>>)
         ELSE split_arguments(Tail(sub_tokens), expressions_passed,
                  Append(current_expression, Head(sub_tokens)))

RECURSIVE parse_expression(_)
RECURSIVE expression_loop(_, _, _, _)
RECURSIVE parse_arguments(_, _, _)

\* `for expr_tokens in expressions_passed`: Some(passed_arguments), or None
\* after a parser_error!
parse_arguments(parser_context, expressions_passed, passed_arguments) ==
    IF expressions_passed = <<>>
    THEN Return(parser_context, Some(passed_arguments))
    ELSE
    LET expr_tokens == Head(expressions_passed)
        expr == parse_expression(Context(parser_context.source, expr_tokens,
                                         parser_context.symbols_table, <<>>))
    IN  IF expr.panic THEN Panic(parser_context)
        ELSE IF expr.result = None
        THEN IF expr_tokens = <<>>
             THEN Panic(parser_context)
             ELSE Return(parser_error(parser_context, expr_tokens[1].info,
                             <<"no expression parsed for argument">>), None)
        ELSE parse_arguments(
                 [parser_context EXCEPT !.errors = @ \o expr.ctx.errors],
                 Tail(expressions_passed),
                 Append(passed_arguments, expr.result))

\* the `(` arm; c is the context after the `(` was popped
paren_operand(c, sym_token, output_stack, operator_stack, first_token) ==
    LET taken == take_balanced(c.tokens, "LeftParen", "RightParen", 1, <<>>)
        c2 == [c EXCEPT !.tokens = taken.rest]
    IN  IF taken.depth # 0
        THEN Return(parser_error(c2, sym_token.info,
                        <<"no close parenthesis found for expression">>), None)
        ELSE
        LET inner_expr == parse_expression(Context(c2.source, taken.sub_tokens,
                                                   c2.symbols_table, <<>>))
        IN  IF inner_expr.panic THEN Panic(c2)
            ELSE IF inner_expr.result = None
            THEN Return(parser_error(c2, sym_token.info,
                            <<"no inner expression parsed">>), None)
            ELSE expression_loop(
                     [c2 EXCEPT !.errors = @ \o inner_expr.ctx.errors],
                     Append(output_stack, inner_expr.result),
                     operator_stack, first_token)

\* invoke_operand without the comparison of the argument count
invoke_operand_any_count(c, ident_token0, output_stack, operator_stack, first_token) ==
    IF c.tokens = <<>>
    THEN Return(next_token_error(c, ident_token0, "an identifier token"), None)
    ELSE
    LET ident_token == Head(c.tokens)
        c2 == [c EXCEPT !.tokens = Tail(@)]
    IN
    IF ident_token.type # "Identifier"
    THEN Return(parser_error(c2, ident_token.info,
                    <<"expected identifier token after 'invoke'">>), None)
    ELSE
    LET func_name == ident_token.name
        func_sign_opt == get_function(c2.symbols_table, func_name)
    IN
    IF func_sign_opt = None
    THEN Return(parser_error(c2, ident_token.info,
                    <<"function '{}' not declared in the current module", func_name>>),
                None)
    ELSE
    LET func_sign == func_sign_opt.value
        return_type == func_sign.return_type
    IN
    IF c2.tokens = <<>>
    THEN Return(next_token_error(c2, ident_token, "a symbol token"), None)
    ELSE
    LET begin_token == Head(c2.tokens)
        c3 == [c2 EXCEPT !.tokens = Tail(@)]
    IN
    IF begin_token.type # "Symbol"
    THEN Return(parser_error(c3, begin_token.info,
                    <<"expected a symbol token to begin param list">>), None)
    ELSE IF begin_token.sym # "LeftParen"
    THEN Return(parser_error(c3, begin_token.info,
                    <<"expected symbol '{:?}' to begin param list, got '{:?}'",
                      "LeftParen", begin_token.sym>>), None)
    ELSE
    LET taken == take_balanced(c3.tokens, "LeftParen", "RightParen", 1, <<>>)
        c4 == [c3 EXCEPT !.tokens = taken.rest]
    IN
    IF taken.depth # 0
    THEN Return(parser_error(c4, begin_token.info,
                    <<"no close function param list">>), None)
    ELSE
    LET expressions_passed == split_arguments(taken.sub_tokens, <<>>, <<>>) IN
    LET arguments == parse_arguments(c4, expressions_passed, <<>>) IN
    IF arguments.panic THEN Panic(c4)
    ELSE IF arguments.result = None THEN Return(arguments.ctx, None)
    ELSE expression_loop(arguments.ctx,
             Append(output_stack,
                    Expression_new_function_call(return_type, func_name,
                                                 arguments.result.value)),
             operator_stack, first_token)

\* the `invoke` arm; c is the context after `invoke` was popped
invoke_operand(c, ident_token0, output_stack, operator_stack, first_token) ==
    IF c.tokens = <<>>
    THEN Return(next_token_error(c, ident_token0, "an identifier token"), None)
    ELSE
    LET ident_token == Head(c.tokens)
        c2 == [c EXCEPT !.tokens = Tail(@)]
    IN
    IF ident_token.type # "Identifier"
    THEN Return(parser_error(c2, ident_token.info,
                    <<"expected identifier token after 'invoke'">>), None)
    ELSE
    LET func_name == ident_token.name
        func_sign_opt == get_function(c2.symbols_table, func_name)
    IN
    IF func_sign_opt = None
    THEN Return(parser_error(c2, ident_token.info,
                    <<"function '{}' not declared in the current module", func_name>>),
                None)
    ELSE
    LET func_sign == func_sign_opt.value
        return_type == func_sign.return_type
    IN
    IF c2.tokens = <<>>
    THEN Return(next_token_error(c2, ident_token, "a symbol token"), None)
    ELSE
    LET begin_token == Head(c2.tokens)
        c3 == [c2 EXCEPT !.tokens = Tail(@)]
    IN
    IF begin_token.type # "Symbol"
    THEN Return(parser_error(c3, begin_token.info,
                    <<"expected a symbol token to begin param list">>), None)
    ELSE IF begin_token.sym # "LeftParen"
    THEN Return(parser_error(c3, begin_token.info,
                    <<"expected symbol '{:?}' to begin param list, got '{:?}'",
                      "LeftParen", begin_token.sym>>), None)
    ELSE
    LET taken == take_balanced(c3.tokens, "LeftParen", "RightParen", 1, <<>>)
        c4 == [c3 EXCEPT !.tokens = taken.rest]
    IN
    IF taken.depth # 0
    THEN Return(parser_error(c4, begin_token.info,
                    <<"no close function param list">>), None)
    ELSE
    LET expressions_passed == split_arguments(taken.sub_tokens, <<>>, <<>>) IN
    IF Len(expressions_passed) # Len(func_sign.parameters)
    THEN Return(parser_error(c4, begin_token.info,
                    <<"mismatched argument length, expected {}, got {}",
                      Len(func_sign.parameters), Len(expressions_passed)>>), None)
    ELSE
    LET arguments == parse_arguments(c4, expressions_passed, <<>>) IN
    IF arguments.panic THEN Panic(c4)
    ELSE IF arguments.result = None THEN Return(arguments.ctx, None)
    ELSE expression_loop(arguments.ctx,
             Append(output_stack,
                    Expression_new_function_call(return_type, func_name,
                                                 arguments.result.value)),
             operator_stack, first_token)

\* variable_operand with an unbound name taken for an Integer variable of
\* the table's next id
variable_operand_unbound(c, token, output_stack, operator_stack, first_token) ==
    LET name == token.name
        id == get_id(c.symbols_table, name)
    IN  IF id = None
        THEN expression_loop(c,
                 Append(output_stack,
                        Expression_new_variable("Integer", c.symbols_table.next_id)),
                 operator_stack, first_token)
        ELSE LET vtype == lookup(c.symbols_table, name) IN
             IF vtype = None THEN Panic(c)
             ELSE expression_loop(c,
                      Append(output_stack, Expression_new_variable(vtype.value, id.value)),
                      operator_stack, first_token)

\* variable_operand with the Variable given the table's next id instead of
\* the id the name is bound to
variable_operand_next_id(c, token, output_stack, operator_stack, first_token) ==
    LET name == token.name
        id == get_id(c.symbols_table, name)
    IN  IF id = None
        THEN Return(parser_error(c, token.info,
                        <<"identifier '{}' not declared in the current scope", name>>),
                    None)
        ELSE LET vtype == lookup(c.symbols_table, name) IN
             IF vtype = None THEN Panic(c)
             ELSE expression_loop(c,
                      Append(output_stack,
                             Expression_new_variable(vtype.value, c.symbols_table.next_id)),
                      operator_stack, first_token)

\* the arm of an identifier other than `invoke`; c is the context after it
\* was popped
variable_operand(c, token, output_stack, operator_stack, first_token) ==
    LET name == token.name
        id == get_id(c.symbols_table, name)
    IN  IF id = None
        THEN Return(parser_error(c, token.info,
                        <<"identifier '{}' not declared in the current scope", name>>),
                    None)
        ELSE LET vtype == lookup(c.symbols_table, name) IN
             IF vtype = None THEN Panic(c)
             ELSE expression_loop(c,
                      Append(output_stack, Expression_new_variable(vtype.value, id.value)),
                      operator_stack, first_token)

\* what follows the token loop: drain the operators, expect one expression
expression_finish(parser_context, output_stack, operator_stack, first_token) ==
    LET drained == drain_operators(operator_stack, output_stack) IN
    IF drained.panic THEN Panic(parser_context)
    ELSE IF Len(drained.stack) # 1
    THEN IF first_token = None
         THEN Panic(parser_context)
         ELSE Return(parser_error(parser_context, first_token.value.info,
                  <<"shunting yard algorithm failed, stack expected to finish with one expression, got {}",
                    Len(drained.stack)>>), None)
    ELSE Return(parser_context, drained.stack[1])

\* `while let Some(token) = parser_context.tokens.pop_front()`
expression_loop(parser_context, output_stack, operator_stack, first_token) ==
    IF parser_context.tokens = <<>>
    THEN expression_finish(parser_context, output_stack, operator_stack, first_token)
    ELSE
    LET token == Head(parser_context.tokens)
        c == [parser_context EXCEPT !.tokens = Tail(@)]
    IN
    CASE token.type = "IntegerLiteral" ->
            expression_loop(c,
                Append(output_stack,
                       Expression_new_literal(Literal_new_integer(token.value))),
                operator_stack, first_token)
      [] token.type = "BooleanLiteral" ->
            expression_loop(c,
                Append(output_stack,
                       Expression_new_literal(Literal_new_boolean(token.value))),
                operator_stack, first_token)
      [] token.type \in {"Arithmetic", "Comparison", "Boolean"} ->
            LET op == OperatorOf(token)
                reduced == reduce_operators(precedence_of(op), operator_stack, output_stack)
            IN  IF reduced.panic THEN Panic(c)
                ELSE expression_loop(c, reduced.output_stack,
                         Append(reduced.operator_stack, op), first_token)
      [] token.type = "Symbol" ->
            IF token.sym = "LeftParen"
            THEN paren_operand(c, token, output_stack, operator_stack, first_token)
            ELSE IF token.sym = "RightParen"
            THEN Return(parser_error(c, token.info,
                            <<"expected a matched right parenthesis">>), None)
            ELSE Return(parser_error(c, token.info,
                            <<"expected symbol '{:?}' at beginsing of expression, got '{:?}'",
                              "LeftParen", token.sym>>), None)
      [] token.type = "Identifier" ->
            IF token.name = KwInvoke
            THEN invoke_operand(c, token, output_stack, operator_stack, first_token)
            ELSE variable_operand(c, token, output_stack, operator_stack, first_token)
      [] OTHER ->
            Return(parser_error(c, token.info,
                       <<"unexpected token '{:?}' in expression", token.type>>), None)

parse_expression(parser_context) ==
    LET first_token == IF parser_context.tokens = <<>> THEN None
                       ELSE Some(Head(parser_context.tokens))
    IN  expression_loop(parser_context, <<>>, <<>>, first_token)

(***************************************************************************)
(* Statements (ast/statement.rs)                                           *)
(***************************************************************************)
Statement_new_function_define(signature, body) ==
    [stype |-> "FunctionDefine", signature |-> signature, body |-> body]

Statement_new_function_declare(signature) ==
    [stype |-> "FunctionDeclare", signature |-> signature]

\* expression is the Option<Expression> the statement holds
Statement_new_function_return(expression) ==
    [stype |-> "FunctionReturn", expression |-> expression]

Statement_new_expression(expression) ==
    [stype |-> "Expression", expression |-> expression]

Statement_new_compound(statements) ==
    [stype |-> "Compound", statements |-> statements]

Statement_new_declare(vtype, identifier, expression) ==
    [stype |-> "Declare", vtype |-> vtype, identifier |-> identifier,
     expression |-> expression]

Statement_new_assign(identifier, expression) ==
    [stype |-> "Assign", identifier |-> identifier, expression |-> expression]

Statement_new_print(expression) ==
    [stype |-> "Print", expression |-> expression]

(***************************************************************************)
(* parse_statement (parser/mod.rs)                                         *)
(***************************************************************************)
KwFunction == <<"f", "u", "n", "c", "t", "i", "o", "n">>
KwReturn == <<"r", "e", "t", "u", "r", "n">>
KwLet == <<"l", "e", "t">>
KwSet == <<"s", "e", "t">>
KwPrint == <<"p", "r", "i", "n", "t">>
KwExpress == <<"e", "x", "p", "r", "e", "s", "s">>

\* the loops that move tokens into expr_tokens up to a Semicolon, which is
\* consumed, or to the end of the queue
RECURSIVE collect_until_semicolon(_, _)
collect_until_semicolon(tokens, expr_tokens) ==
    IF tokens = <<>>
    THEN [expr_tokens |-> expr_tokens, rest |-> <<>>]
    ELSE IF IsSym(Head(tokens), "Semicolon")
         THEN [expr_tokens |-> expr_tokens, rest |-> Tail(tokens)]
         ELSE collect_until_semicolon(Tail(tokens), Append(expr_tokens, Head(tokens)))

\* the loop that moves the tokens of a parameter list into sub_tokens up to
\* the first RightParen, which is consumed, or to the end of the queue
RECURSIVE collect_parameters(_, _)
collect_parameters(tokens, sub_tokens) ==
    IF tokens = <<>>
    THEN [sub_tokens |-> sub_tokens, rest |-> <<>>]
    ELSE IF IsSym(Head(tokens), "RightParen")
         THEN [sub_tokens |-> sub_tokens, rest |-> Tail(tokens)]
         ELSE collect_parameters(Tail(tokens), Append(sub_tokens, Head(tokens)))

\* `while let Some(sub_token) = sub_tokens.pop_front()` of a function
\* header: Some(parameters), or None after an error return
RECURSIVE parameter_loop(_, _, _)
parameter_loop(parser_context, sub_tokens, parameters) ==
    IF sub_tokens = <<>>
    THEN Return(parser_context, Some(parameters))
    ELSE
    LET sub_token == Head(sub_tokens)
        rest1 == Tail(sub_tokens)
    IN
    IF sub_token.type # "Identifier"
    THEN Return(parser_error(parser_context, sub_token.info,
                    <<"expected identifier token">>), None)
    ELSE
    LET param_id == sub_token.name IN
    IF rest1 = <<>>
    THEN Return(next_token_error(parser_context, sub_token, "a type token"), None)
    ELSE
    LET type_token == Head(rest1)
        rest2 == Tail(rest1)
    IN
    IF type_token.type # "Type"
    THEN Return(parser_error(parser_context, type_token.info,
                    <<"expected type token after param identifier '{}'", param_id>>),
                None)
    ELSE
    LET param_vtype == type_token.vtype IN
    IF rest2 # <<>> /\ Head(rest2).type # "Symbol"
    THEN Return(parser_error(parser_context, Head(rest2).info,
                    <<"expected symbol token after param type, got '{:?}'",
                      Head(rest2).type>>), None)
    ELSE IF rest2 # <<>> /\ Head(rest2).sym # "Comma"
    THEN Return(parser_error(parser_context, Head(rest2).info,
                    <<"expected symbol '{:?}' to end param entry, got '{:?}'",
                      "Comma", Head(rest2).sym>>), None)
    ELSE
    LET defined == define(parser_context.symbols_table, param_id, param_vtype)
        id == get_id(defined, param_id)
    IN  IF define_panics(parser_context.symbols_table) THEN Panic(parser_context)
        ELSE IF id = None THEN Panic(parser_context)
        ELSE parameter_loop(
                 [parser_context EXCEPT !.symbols_table = defined],
                 IF rest2 = <<>> THEN rest2 ELSE Tail(rest2),
                 Append(parameters, Parameter_new(id.value, param_vtype)))

RECURSIVE parse_statement(_, _)
RECURSIVE compound_loop(_, _)

\* `while !sub_context.tokens.is_empty()` of a compound statement
compound_loop(sub_context, statements) ==
    IF sub_context.tokens = <<>>
    THEN Return(sub_context, statements)
    ELSE LET result == parse_statement(sub_context, TRUE) IN
         IF result.panic THEN Panic(result.ctx)
         ELSE compound_loop(result.ctx,
                  IF result.result # None THEN Append(statements, result.result)
                  ELSE statements)

\* the Symbol arm; c is the context after t was popped
compound_statement(c, t, manage_scope) ==
    IF t.sym # "LeftBrace"
    THEN Return(parser_error(c, t.info,
                    <<"expected symbol '{:?}' when beginning a statement, got '{:?}'",
                      "LeftBrace", t.sym>>), None)
    ELSE
    LET taken == take_balanced(c.tokens, "LeftBrace", "RightBrace", 1, <<>>)
        c2 == [c EXCEPT !.tokens = taken.rest]
    IN
    IF taken.depth # 0
    THEN Return(parser_error(c2, t.info,
                    <<"no close braces found for compound statement">>), None)
    ELSE
    LET sub_context == Context(c2.source, taken.sub_tokens,
                               IF manage_scope THEN push_scope(c2.symbols_table)
                               ELSE c2.symbols_table,
                               <<>>)
        body == compound_loop(sub_context, <<>>)
    IN
    IF body.panic THEN Panic(c2)
    ELSE Return([c2 EXCEPT !.errors = @ \o body.ctx.errors,
                           !.symbols_table =
                               IF manage_scope THEN pop_scope(body.ctx.symbols_table)
                               ELSE body.ctx.symbols_table],
                Statement_new_compound(body.result))

\* function_tail without the pop_scope of a declaration
function_tail_keeps_scope(c, t_name, func_name, vtype, parameters) ==
    IF define_function_panics(c.symbols_table, func_name) THEN Panic(c)
    ELSE
    LET c1 == [c EXCEPT !.symbols_table = define_function(@, func_name, vtype, parameters)] IN
    IF c1.tokens = <<>>
    THEN Return(next_token_error(c1, t_name, "a symbol token"), None)
    ELSE
    LET next_token == Head(c1.tokens)
        c2 == [c1 EXCEPT !.tokens = Tail(@)]
    IN
    IF next_token.type # "Symbol"
    THEN Return(parser_error(c2, next_token.info,
                    <<"expected a symbol token after function signature">>), None)
    ELSE
    LET sym == next_token.sym
        func_sign == FunctionSignature_new(func_name, vtype, parameters)
    IN
    CASE sym = "Semicolon" ->
            Return(c2, Statement_new_function_declare(func_sign))
      [] sym = "LeftBrace" ->
            LET result == parse_statement([c2 EXCEPT !.tokens = <<next_token>> \o @], FALSE) IN
            IF result.panic \/ result.result = None \/ result.result.stype # "Compound"
            THEN Panic(result.ctx)
            ELSE Return([result.ctx EXCEPT !.symbols_table = pop_scope(@)],
                        Statement_new_function_define(func_sign, result.result))
      [] OTHER ->
            Return(parser_error(c2, next_token.info,
                       <<"expected symbol '{:?}' or '{:?}' after function signature, got '{:?}'",
                         "Semicolon", "LeftBrace", sym>>), None)

\* function_tail without the call of define_function
function_tail_unregistered(c, t_name, func_name, vtype, parameters) ==
    LET c1 == c IN
    IF c1.tokens = <<>>
    THEN Return(next_token_error(c1, t_name, "a symbol token"), None)
    ELSE
    LET next_token == Head(c1.tokens)
        c2 == [c1 EXCEPT !.tokens = Tail(@)]
    IN
    IF next_token.type # "Symbol"
    THEN Return(parser_error(c2, next_token.info,
                    <<"expected a symbol token after function signature">>), None)
    ELSE
    LET sym == next_token.sym
        func_sign == FunctionSignature_new(func_name, vtype, parameters)
    IN
    CASE sym = "Semicolon" ->
            Return([c2 EXCEPT !.symbols_table = pop_scope(@)],
                   Statement_new_function_declare(func_sign))
      [] sym = "LeftBrace" ->
            LET result == parse_statement([c2 EXCEPT !.tokens = <<next_token>> \o @], FALSE) IN
            IF result.panic \/ result.result = None \/ result.result.stype # "Compound"
            THEN Panic(result.ctx)
            ELSE Return([result.ctx EXCEPT !.symbols_table = pop_scope(@)],
                        Statement_new_function_define(func_sign, result.result))
      [] OTHER ->
            Return(parser_error(c2, next_token.info,
                       <<"expected symbol '{:?}' or '{:?}' after function signature, got '{:?}'",
                         "Semicolon", "LeftBrace", sym>>), None)

\* what follows the signature's type token: define_function and the `;` or
\* the body; c is the context after the type token was popped
function_tail(c, t_name, func_name, vtype, parameters) ==
    IF define_function_panics(c.symbols_table, func_name) THEN Panic(c)
    ELSE
    LET c1 == [c EXCEPT !.symbols_table = define_function(@, func_name, vtype, parameters)] IN
    IF c1.tokens = <<>>
    THEN Return(next_token_error(c1, t_name, "a symbol token"), None)
    ELSE
    LET next_token == Head(c1.tokens)
        c2 == [c1 EXCEPT !.tokens = Tail(@)]
    IN
    IF next_token.type # "Symbol"
    THEN Return(parser_error(c2, next_token.info,
                    <<"expected a symbol token after function signature">>), None)
    ELSE
    LET sym == next_token.sym
        func_sign == FunctionSignature_new(func_name, vtype, parameters)
    IN
    CASE sym = "Semicolon" ->
            Return([c2 EXCEPT !.symbols_table = pop_scope(@)],
                   Statement_new_function_declare(func_sign))
      [] sym = "LeftBrace" ->
            LET result == parse_statement([c2 EXCEPT !.tokens = <<next_token>> \o @], FALSE) IN
            IF result.panic \/ result.result = None \/ result.result.stype # "Compound"
            THEN Panic(result.ctx)
            ELSE Return([result.ctx EXCEPT !.symbols_table = pop_scope(@)],
                        Statement_new_function_define(func_sign, result.result))
      [] OTHER ->
            Return(parser_error(c2, next_token.info,
                       <<"expected symbol '{:?}' or '{:?}' after function signature, got '{:?}'",
                         "Semicolon", "LeftBrace", sym>>), None)

\* the `function` arm; c is the context after t was popped
function_statement(c, t) ==
    IF scope(c.symbols_table) # 1
    THEN Return(parser_error(c, t.info,
                    <<"function declaration or definition is not allowed here">>), None)
    ELSE IF c.tokens = <<>>
    THEN Return(next_token_error(c, t, "an identifier token"), None)
    ELSE
    LET t_name == Head(c.tokens)
        c2 == [c EXCEPT !.tokens = Tail(@)]
    IN
    IF t_name.type # "Identifier"
    THEN Return(parser_error(c2, t_name.info,
                    <<"expected identifier token after 'function'">>), None)
    ELSE
    LET func_name == t_name.name IN
    IF c2.tokens = <<>>
    THEN Return(next_token_error(c2, t_name, "a symbol token"), None)
    ELSE
    LET t_sym == Head(c2.tokens)
        c3 == [c2 EXCEPT !.tokens = Tail(@)]
    IN
    IF t_sym.type # "Symbol"
    THEN Return(parser_error(c3, t_sym.info,
                    <<"expected a symbol token after function identifier in signature">>),
                None)
    ELSE IF t_sym.sym # "LeftParen"
    THEN Return(parser_error(c3, t_sym.info,
                    <<"expected symbol '{:?}' to begin parameter list in function signature, got '{:?}'",
                      "LeftParen", t_sym.sym>>), None)
    ELSE
    LET collected == collect_parameters(c3.tokens, <<>>)
        c4 == [c3 EXCEPT !.tokens = collected.rest,
                         !.symbols_table = push_scope(@)]
        params == parameter_loop(c4, collected.sub_tokens, <<>>)
    IN
    IF params.panic THEN Panic(params.ctx)
    ELSE IF params.result = None THEN Return(params.ctx, None)
    ELSE
    LET c5 == params.ctx
        parameters == params.result.value
    IN
    IF c5.tokens = <<>>
    THEN Return(next_token_error(c5, t_name, "a type token"), None)
    ELSE
    LET t_type_token == Head(c5.tokens)
        c6 == [c5 EXCEPT !.tokens = Tail(@)]
    IN
    IF t_type_token.type # "Type"
    THEN Return(parser_error(c6, t_type_token.info,
                    <<"expected type token to end function signature with identifier '{}'",
                      func_name>>), None)
    ELSE function_tail(c6, t_name, func_name, t_type_token.vtype, parameters)

\* the `return` arm; c is the context after t was popped
return_statement(c, t) ==
    IF scope(c.symbols_table) = 1
    THEN Return(parser_error(c, t.info,
                    <<"'return' statement is not allowed here">>), None)
    ELSE
    LET collected == collect_until_semicolon(c.tokens, <<>>)
        c2 == [c EXCEPT !.tokens = collected.rest]
    IN
    IF Len(collected.expr_tokens) = 0
    THEN Return(c2, Statement_new_function_return(None))
    ELSE
    LET expr == parse_expression(Context(c2.source, collected.expr_tokens,
                                         c2.symbols_table, <<>>))
        c3 == [c2 EXCEPT !.errors = @ \o expr.ctx.errors]
    IN  IF expr.panic THEN Panic(c2)
        ELSE IF expr.result = None
        THEN Return(parser_error(c3, t.info,
                        <<"no expression parsed for 'return' statement">>), None)
        ELSE Return(c3, Statement_new_function_return(Some(expr.result)))

\* let_statement without the check of the type Void
let_statement_any_type(c, t) ==
    IF scope(c.symbols_table) = 1
    THEN Return(parser_error(c, t.info,
                    <<"'let' statement is not allowed here">>), None)
    ELSE IF c.tokens = <<>>
    THEN Return(next_token_error(c, t, "an identifier token"), None)
    ELSE
    LET t_name == Head(c.tokens)
        c2 == [c EXCEPT !.tokens = Tail(@)]
    IN
    IF t_name.type # "Identifier"
    THEN Return(parser_error(c2, t_name.info,
                    <<"expected identifier token after 'let'">>), None)
    ELSE
    LET i_name == t_name.name IN
    IF c2.tokens = <<>>
    THEN Return(next_token_error(c2, t_name, "a type token"), None)
    ELSE
    LET t_type_token == Head(c2.tokens)
        c3 == [c2 EXCEPT !.tokens = Tail(@)]
    IN
    IF t_type_token.type # "Type"
    THEN Return(parser_error(c3, t_type_token.info,
                    <<"expected a type token after identifier '{}'", i_name>>), None)
    ELSE
    LET vtype == t_type_token.vtype IN
    IF c3.tokens = <<>>
    THEN Return(next_token_error(c3, t_type_token, "'=' after type token"), None)
    ELSE
    LET eq_token == Head(c3.tokens)
        c4 == [c3 EXCEPT !.tokens = Tail(@)]
    IN
    IF eq_token.type # "Symbol"
    THEN Return(parser_error(c4, eq_token.info,
                    <<"expected symbol '=' after type">>), None)
    ELSE IF eq_token.sym # "Equal"
    THEN Return(parser_error(c4, eq_token.info,
                    <<"expected symbol '{:?}' after type in 'let' statement, got '{:?}'",
                      "Equal", eq_token.sym>>), None)
    ELSE
    LET collected == collect_until_semicolon(c4.tokens, <<>>)
        c5 == [c4 EXCEPT !.tokens = collected.rest]
        expr == parse_expression(Context(c5.source, collected.expr_tokens,
                                         c5.symbols_table, <<>>))
        c6 == [c5 EXCEPT !.errors = @ \o expr.ctx.errors,
                         !.symbols_table = define(@, i_name, vtype)]
        id == get_id(c6.symbols_table, i_name)
    IN  IF expr.panic THEN Panic(c5)
        ELSE IF define_panics(c5.symbols_table) THEN Panic(c5)
        ELSE IF expr.result = None
        THEN Return(parser_error(c6, t.info,
                        <<"no expression parsed for 'let' statement">>), None)
        ELSE IF id = None THEN Panic(c6)
        ELSE Return(c6, Statement_new_declare(vtype, id.value, expr.result))

\* let_statement with the name registered before its initializer is parsed
let_statement_defines_first(c, t) ==
    IF scope(c.symbols_table) = 1
    THEN Return(parser_error(c, t.info,
                    <<"'let' statement is not allowed here">>), None)
    ELSE IF c.tokens = <<>>
    THEN Return(next_token_error(c, t, "an identifier token"), None)
    ELSE
    LET t_name == Head(c.tokens)
        c2 == [c EXCEPT !.tokens = Tail(@)]
    IN
    IF t_name.type # "Identifier"
    THEN Return(parser_error(c2, t_name.info,
                    <<"expected identifier token after 'let'">>), None)
    ELSE
    LET i_name == t_name.name IN
    IF c2.tokens = <<>>
    THEN Return(next_token_error(c2, t_name, "a type token"), None)
    ELSE
    LET t_type_token == Head(c2.tokens)
        c3 == [c2 EXCEPT !.tokens = Tail(@)]
    IN
    IF t_type_token.type # "Type"
    THEN Return(parser_error(c3, t_type_token.info,
                    <<"expected a type token after identifier '{}'", i_name>>), None)
    ELSE
    LET vtype == t_type_token.vtype IN
    IF vtype = "Void"
    THEN Return(parser_error(c3, t_type_token.info,
                    <<"variable '{}' has incomplete type 'void'", i_name>>), None)
    ELSE IF c3.tokens = <<>>
    THEN Return(next_token_error(c3, t_type_token, "'=' after type token"), None)
    ELSE
    LET eq_token == Head(c3.tokens)
        c4 == [c3 EXCEPT !.tokens = Tail(@)]
    IN
    IF eq_token.type # "Symbol"
    THEN Return(parser_error(c4, eq_token.info,
                    <<"expected symbol '=' after type">>), None)
    ELSE IF eq_token.sym # "Equal"
    THEN Return(parser_error(c4, eq_token.info,
                    <<"expected symbol '{:?}' after type in 'let' statement, got '{:?}'",
                      "Equal", eq_token.sym>>), None)
    ELSE
    LET collected == collect_until_semicolon(c4.tokens, <<>>)
        c5 == [c4 EXCEPT !.tokens = collected.rest]
        defined == define(c5.symbols_table, i_name, vtype)
        expr == parse_expression(Context(c5.source, collected.expr_tokens,
                                         defined, <<>>))
        c6 == [c5 EXCEPT !.errors = @ \o expr.ctx.errors,
                         !.symbols_table = defined]
        id == get_id(c6.symbols_table, i_name)
    IN  IF expr.panic THEN Panic(c5)
        ELSE IF define_panics(c5.symbols_table) THEN Panic(c5)
        ELSE IF expr.result = None
        THEN Return(parser_error(c6, t.info,
                        <<"no expression parsed for 'let' statement">>), None)
        ELSE IF id = None THEN Panic(c6)
        ELSE Return(c6, Statement_new_declare(vtype, id.value, expr.result))

\* the `let` arm; c is the context after t was popped
let_statement(c, t) ==
    IF scope(c.symbols_table) = 1
    THEN Return(parser_error(c, t.info,
                    <<"'let' statement is not allowed here">>), None)
    ELSE IF c.tokens = <<>>
    THEN Return(next_token_error(c, t, "an identifier token"), None)
    ELSE
    LET t_name == Head(c.tokens)
        c2 == [c EXCEPT !.tokens = Tail(@)]
    IN
    IF t_name.type # "Identifier"
    THEN Return(parser_error(c2, t_name.info,
                    <<"expected identifier token after 'let'">>), None)
    ELSE
    LET i_name == t_name.name IN
    IF c2.tokens = <<>>
    THEN Return(next_token_error(c2, t_name, "a type token"), None)
    ELSE
    LET t_type_token == Head(c2.tokens)
        c3 == [c2 EXCEPT !.tokens = Tail(@)]
    IN
    IF t_type_token.type # "Type"
    THEN Return(parser_error(c3, t_type_token.info,
                    <<"expected a type token after identifier '{}'", i_name>>), None)
    ELSE
    LET vtype == t_type_token.vtype IN
    IF vtype = "Void"
    THEN Return(parser_error(c3, t_type_token.info,
                    <<"variable '{}' has incomplete type 'void'", i_name>>), None)
    ELSE IF c3.tokens = <<>>
    THEN Return(next_token_error(c3, t_type_token, "'=' after type token"), None)
    ELSE
    LET eq_token == Head(c3.tokens)
        c4 == [c3 EXCEPT !.tokens = Tail(@)]
    IN
    IF eq_token.type # "Symbol"
    THEN Return(parser_error(c4, eq_token.info,
                    <<"expected symbol '=' after type">>), None)
    ELSE IF eq_token.sym # "Equal"
    THEN Return(parser_error(c4, eq_token.info,
                    <<"expected symbol '{:?}' after type in 'let' statement, got '{:?}'",
                      "Equal", eq_token.sym>>), None)
    ELSE
    LET collected == collect_until_semicolon(c4.tokens, <<>>)
        c5 == [c4 EXCEPT !.tokens = collected.rest]
        expr == parse_expression(Context(c5.source, collected.expr_tokens,
                                         c5.symbols_table, <<>>))
        c6 == [c5 EXCEPT !.errors = @ \o expr.ctx.errors,
                         !.symbols_table = define(@, i_name, vtype)]
        id == get_id(c6.symbols_table, i_name)
    IN  IF expr.panic THEN Panic(c5)
        ELSE IF define_panics(c5.symbols_table) THEN Panic(c5)
        ELSE IF expr.result = None
        THEN Return(parser_error(c6, t.info,
                        <<"no expression parsed for 'let' statement">>), None)
        ELSE IF id = None THEN Panic(c6)
        ELSE Return(c6, Statement_new_declare(vtype, id.value, expr.result))

\* the `set` arm; c is the context after t was popped
set_statement(c, t) ==
    IF scope(c.symbols_table) = 1
    THEN Return(parser_error(c, t.info,
                    <<"'set' statement is not allowed here">>), None)
    ELSE IF c.tokens = <<>>
    THEN Return(next_token_error(c, t, "an identifier token"), None)
    ELSE
    LET t_name == Head(c.tokens)
        c2 == [c EXCEPT !.tokens = Tail(@)]
    IN
    IF t_name.type # "Identifier"
    THEN Return(parser_error(c2, t_name.info,
                    <<"expected identifier token after 'set'">>), None)
    ELSE
    LET i_name == t_name.name
        id == get_id(c2.symbols_table, i_name)
    IN
    IF id = None
    THEN Return(parser_error(c2, t_name.info,
                    <<"identifier '{}' not declared in the current scope.", i_name>>),
                None)
    ELSE IF c2.tokens = <<>>
    THEN Return(next_token_error(c2, t_name, "'=' after identifier token"), None)
    ELSE
    LET eq_token == Head(c2.tokens)
        c3 == [c2 EXCEPT !.tokens = Tail(@)]
    IN
    IF eq_token.type # "Symbol"
    THEN Return(parser_error(c3, eq_token.info,
                    <<"expected symbol '=' after identifier">>), None)
    ELSE IF eq_token.sym # "Equal"
    THEN Return(parser_error(c3, eq_token.info,
                    <<"expected symbol '{:?}' after identifier in 'set' statement, got '{:?}'",
                      "Equal", eq_token.sym>>), None)
    ELSE
    LET collected == collect_until_semicolon(c3.tokens, <<>>)
        c4 == [c3 EXCEPT !.tokens = collected.rest]
        expr == parse_expression(Context(c4.source, collected.expr_tokens,
                                         c4.symbols_table, <<>>))
        c5 == [c4 EXCEPT !.errors = @ \o expr.ctx.errors]
    IN  IF expr.panic THEN Panic(c4)
        ELSE IF expr.result = None
        THEN Return(parser_error(c5, t.info,
                        <<"no expression parsed for 'set' statement">>), None)
        ELSE Return(c5, Statement_new_assign(id.value, expr.result))

\* the `print` arm; c is the context after t was popped
print_statement(c, t) ==
    IF scope(c.symbols_table) = 1
    THEN Return(parser_error(c, t.info,
                    <<"'print' statement is not allowed here">>), None)
    ELSE
    LET collected == collect_until_semicolon(c.tokens, <<>>)
        c2 == [c EXCEPT !.tokens = collected.rest]
        expr == parse_expression(Context(c2.source, collected.expr_tokens,
                                         c2.symbols_table, <<>>))
        c3 == [c2 EXCEPT !.errors = @ \o expr.ctx.errors]
    IN  IF expr.panic THEN Panic(c2)
        ELSE IF expr.result = None
        THEN Return(parser_error(c3, t.info,
                        <<"no expression parsed for 'print' statement">>), None)
        ELSE Return(c3, Statement_new_print(expr.result))

\* the `express` arm; c is the context after t was popped
express_statement(c, t) ==
    IF scope(c.symbols_table) = 1
    THEN Return(parser_error(c, t.info,
                    <<"'express' statement is not allowed here">>), None)
    ELSE
    LET collected == collect_until_semicolon(c.tokens, <<>>)
        c2 == [c EXCEPT !.tokens = collected.rest]
        expr == parse_expression(Context(c2.source, collected.expr_tokens,
                                         c2.symbols_table, <<>>))
        c3 == [c2 EXCEPT !.errors = @ \o expr.ctx.errors]
    IN  IF expr.panic THEN Panic(c2)
        ELSE IF expr.result = None
        THEN Return(parser_error(c3, t.info,
                        <<"no expression parsed for 'express' statement">>), None)
        ELSE Return(c3, Statement_new_expression(expr.result))

\* an empty queue falls out of the `while let` to the final panic!()
parse_statement(parser_context, manage_scope) ==
    IF parser_context.tokens = <<>>
    THEN Panic(parser_context)
    ELSE
    LET t == Head(parser_context.tokens)
        c == [parser_context EXCEPT !.tokens = Tail(@)]
    IN
    CASE t.type = "Symbol" -> compound_statement(c, t, manage_scope)
      [] t.type = "Identifier" ->
            CASE t.name = KwFunction -> function_statement(c, t)
              [] t.name = KwReturn -> return_statement(c, t)
              [] t.name = KwLet -> let_statement(c, t)
              [] t.name = KwSet -> set_statement(c, t)
              [] t.name = KwPrint -> print_statement(c, t)
              [] t.name = KwExpress -> express_statement(c, t)
              [] OTHER ->
                    Return(parser_error(c, t.info,
                               <<"unexpected identifier '{}' when beginning a statement",
                                 t.name>>), None)
      [] OTHER ->
            Return(parser_error(c, t.info,
                       <<"unexpected token '{:?}' when beginning a statement", t.type>>),
                   None)

(***************************************************************************)
(* Source texts: a context with a window of at most MaxWindow phrases in   *)
(* it, every window over the context's phrases; and the well-formed        *)
(* definitions and declarations of one function                            *)
(***************************************************************************)
\* the longest window of phrases
MaxWindow == 3

\* the sequences over S of length at most n
SeqsUpTo(S, n) == UNION {[1..k -> S] : k \in 0..n}

\* the concatenation of a sequence of character sequences
RECURSIVE Flatten(_)
Flatten(window) ==
    IF window = <<>> THEN <<>> ELSE Head(window) \o Flatten(Tail(window))

\* the words, each followed by a blank
Sp(words) == Flatten([i \in 1..Len(words) |-> words[i] \o <<" ">>])

\* the words as a line of their own
Ln(words) == Sp(words) \o <<"\n">>

HeaderF == Sp(<<KwFunction, <<"f">>, <<"(">>, <<"x">>, KwInt, <<")">>, KwInt>>)
HeaderG == Sp(<<KwFunction, <<"g">>, <<"(">>, <<")">>, KwVoid>>)
HeaderH == Sp(<<KwFunction, <<"h">>, <<"(">>, <<"y">>, KwBool, <<")">>, KwInt>>)
DeclareF == HeaderF \o Ln(<<<<";">>>>)
DeclareG == HeaderG \o Ln(<<<<";">>>>)
InvokeFX == Sp(<<KwInvoke, <<"f">>, <<"(">>, <<"x">>, <<")">>>>)
InvokeF1 == Sp(<<KwInvoke, <<"f">>, <<"(">>, <<"1">>, <<")">>>>)

\* the top level: headers, what may follow them, blocks and statements
TopContext ==
    [pre |-> <<>>,
     phrases |->
        {DeclareF, HeaderF, HeaderG,
         Ln(<<<<";">>>>), Sp(<<<<"{">>>>), Ln(<<<<"}">>>>),
         Sp(<<<<"{">>, KwReturn>>) \o InvokeF1 \o Ln(<<<<";">>, <<"}">>>>),
         Ln(<<<<"1">>, <<";">>>>),
         Sp(<<KwPrint>>) \o InvokeFX \o Ln(<<<<";">>>>)},
     post |-> <<>>]

\* the top level: the statements that belong into a function body
KeywordContext ==
    [pre |-> <<>>,
     phrases |->
        {Ln(<<KwLet, <<"x">>, KwInt, <<"=">>, <<"1", "0">>, <<";">>>>),
         Ln(<<KwSet, <<"x">>, <<"=">>, <<"1">>, <<";">>>>),
         Ln(<<KwPrint, <<"1">>, <<";">>>>),
         Ln(<<KwReturn, <<";">>>>),
         Ln(<<KwExpress, <<"1">>, <<";">>>>),
         Sp(<<KwPrint, <<"1">>>>),
         DeclareF, Ln(<<<<"}">>>>), <<"\n", "\t", " ">>},
     post |-> <<>>]

\* the body of a function with the parameter x
BodyContext ==
    [pre |-> HeaderF \o Sp(<<<<"{">>>>),
     phrases |->
        {Ln(<<KwLet, <<"z">>, KwInt, <<"=">>, <<"w">>, <<";">>>>),
         Ln(<<KwLet, <<"z">>, KwInt, <<"=">>, <<"1">>, <<";">>>>),
         Ln(<<KwLet, <<"x">>, KwBool, <<"=">>, <<"x">>, <<";">>>>),
         Ln(<<KwLet, <<"z">>, KwVoid, <<"=">>, <<"1">>, <<";">>>>),
         Ln(<<KwPrint, <<"z">>, <<";">>>>),
         Ln(<<KwSet, <<"z">>, <<"=">>, <<"x">>, <<";">>>>),
         Sp(<<KwPrint>>),
         Sp(<<<<"{">>>>), Ln(<<<<"}">>>>), Ln(<<<<";">>>>)},
     post |-> Ln(<<<<"}">>>>)]

\* calls in the body of h, after the declarations of f (one parameter) and
\* g (none) and a first call of f
CallContext ==
    [pre |-> DeclareF \o DeclareG \o HeaderH \o Sp(<<<<"{">>, KwExpress>>)
             \o InvokeF1 \o Ln(<<<<";">>>>),
     phrases |->
        {Sp(<<KwExpress, KwInvoke, <<"f">>, <<"(">>>>),
         Sp(<<KwExpress, KwInvoke, <<"g">>, <<"(">>>>),
         Sp(<<KwExpress, KwInvoke, <<"k">>, <<"(">>>>),
         Sp(<<KwInvoke, <<"g">>, <<"(">>, <<")">>>>),
         InvokeF1,
         Sp(<<<<"1">>>>), Sp(<<<<"y">>, <<",">>>>),
         Ln(<<<<")">>, <<";">>>>), Ln(<<<<";">>>>)},
     post |-> Ln(<<<<"}">>>>)]

\* the expression of a return statement in a function with the parameter x
ExpressionContext ==
    [pre |-> HeaderF \o Sp(<<<<"{">>, KwReturn>>),
     phrases |->
        {Sp(<<<<"1">>>>), Sp(<<<<"x">>>>), Sp(<<<<"w">>>>), Sp(<<KwInt>>),
         Sp(<<<<"+">>>>), <<"*">>, Sp(<<KwAnd>>),
         <<"(">>, <<")">>, Ln(<<<<";">>>>)},
     post |-> Ln(<<<<"}">>>>)]

\* the parameter list of a function, with a `let` of type void after the
\* function
ParameterContext ==
    [pre |-> Sp(<<KwFunction, <<"f">>, <<"(">>>>),
     phrases |->
        {Sp(<<<<"x">>>>), Sp(<<<<"y", "2">>>>), Sp(<<KwInt>>), Sp(<<KwVoid>>),
         <<",">>, Sp(<<<<"1">>>>), <<";">>, <<")">>},
     post |-> Ln(<<<<")">>, KwInt, <<";">>>>)
              \o Ln(<<KwLet, <<"q">>, KwVoid, <<"=">>, <<"1">>, <<";">>>>)]

Contexts ==
    {TopContext, KeywordContext, BodyContext, CallContext, ExpressionContext,
     ParameterContext}

WindowSources ==
    UNION {{c.pre \o Flatten(w) \o c.post : w \in SeqsUpTo(c.phrases, MaxWindow)} :
           c \in Contexts}

\* the operators of a well-formed `return p OP p;`
Operators ==
    {<<"*">>, <<"/">>, <<"+">>, <<"-">>, <<"<">>, <<">", "=">>, <<"=", "=">>,
     <<"!", "=">>, KwAnd, KwOr}

FunctionNames == {<<"f">>, <<"s", "q", "u", "a", "r", "e">>}

ParameterNames == {<<"x">>, <<"n", "_", "1">>}

\* function NAME(p T) R { return p OP p; }
DefineSource(name, p, t, r, op) ==
    <<"\n", "\t">> \o Ln(<<KwFunction, name \o <<"(">> \o p, t \o <<")">>, r>>)
    \o Ln(<<<<"{">>>>)
    \o <<"\t">> \o Ln(<<KwReturn, p, op, p \o <<";">>>>)
    \o Ln(<<<<"}">>>>)

\* function NAME(p T) R;
DeclareSource(name, p, t, r) ==
    <<"\n", "\t">> \o Sp(<<KwFunction, name \o <<"(">> \o p, t \o <<")">>>>) \o r
    \o <<";", "\n">>

\* function NAME() R;
DeclareSource0(name, r) ==
    Sp(<<KwFunction, name>>) \o <<"(", ")">> \o r \o <<";">>

DefineCases ==
    FunctionNames \X ParameterNames \X {KwInt, KwBool} \X {KwInt, KwBool, KwVoid}
    \X Operators

DeclareCases ==
    FunctionNames \X ParameterNames \X {KwInt, KwBool} \X {KwInt, KwBool, KwVoid}

DefineSources == {DefineSource(c[1], c[2], c[3], c[4], c[5]) : c \in DefineCases}

DeclareSources ==
    {DeclareSource(c[1], c[2], c[3], c[4]) : c \in DeclareCases}
    \cup {DeclareSource0(c[1], c[4]) : c \in DeclareCases}

\* the source of the test global_state_err
LetSource ==
    <<"\n", "\t", "\t", "\t">>
    \o <<"l", "e", "t", " ", "x", " ", "i", "n", "t", " ", "=", " ", "1", "0", ";">>
    \o <<"\n", "\t", "\t">>

\* a declaration with two parameters
TwoParameterSource ==
    <<"f", "u", "n", "c", "t", "i", "o", "n", " ", "f", "(", "a", " ", "i", "n", "t", ",", " ", "b", " ", "i", "n", "t", ")", " ", "i", "n", "t", ";">>

\* the declaration of f with two parameters, and a call of f with one
ArityMismatchSource ==
    TwoParameterSource \o <<"\n">>
    \o <<"f", "u", "n", "c", "t", "i", "o", "n", " ", "g", "(", ")", " ", "i", "n", "t", " ", "{", " ", "r", "e", "t", "u", "r", "n", " ", "i", "n", "v", "o", "k", "e", " ", "f", "(", "1", ")", ";", " ", "}">>

\* a `let` whose initializer is an unbound name
UnboundLetSource ==
    <<"f", "u", "n", "c", "t", "i", "o", "n", " ", "f", "(", ")", " ", "i", "n", "t", " ", "{", " ", "l", "e", "t", " ", "y", " ", "i", "n", "t", " ", "=", " ", "z", ";", " ", "}">>

\* function NAME(p T) R; followed by function NAME(p T) R { return p * p; }
RedefineSources ==
    {DeclareSource(c[1], c[2], c[3], c[4])
        \o DefineSource(c[1], c[2], c[3], c[4], <<"*">>) : c \in DeclareCases}

\* the largest number of operators of an infix window
MaxOperators == 3

\* the k-th operand of an infix window: 1, 2, 3, 4, true, 6, 7, false, ...
OperandWord(k) ==
    CASE k % 8 = 0 -> KwFalse
      [] k % 8 = 5 -> KwTrue
      [] OTHER -> <<CHOOSE d \in Digits : DigitValue[d] = k % 8>>

\* operand (op operand)* with the operators ops
RECURSIVE InfixWindow(_, _)
InfixWindow(ops, k) ==
    IF k > Len(ops) THEN Sp(<<OperandWord(k)>>)
    ELSE Sp(<<OperandWord(k), ops[k]>>) \o InfixWindow(ops, k + 1)

\* function f() int { return WINDOW; }
ReturnSource(window) ==
    Sp(<<KwFunction, <<"f">>, <<"(">>, <<")">>, KwInt, <<"{">>, KwReturn>>)
    \o window \o Sp(<<<<";">>, <<"}">>>>)

InfixCases == SeqsUpTo(Operators, MaxOperators)

InfixSource == [ops \in InfixCases |-> ReturnSource(InfixWindow(ops, 1))]

InfixSources == {InfixSource[ops] : ops \in InfixCases}

\* ( 1 op1 2 ) op2 3 and 1 op1 ( 2 op2 3 )
ParenLeftWindow(op1, op2) ==
    Sp(<<<<"(">>, OperandWord(1), op1, OperandWord(2), <<")">>, op2, OperandWord(3)>>)

ParenRightWindow(op1, op2) ==
    Sp(<<OperandWord(1), op1, <<"(">>, OperandWord(2), op2, OperandWord(3), <<")">>>>)

ParenSources ==
    {ReturnSource(ParenLeftWindow(c[1], c[2])) : c \in Operators \X Operators}
    \cup {ReturnSource(ParenRightWindow(c[1], c[2])) : c \in Operators \X Operators}

\* 1 2 3 op1 op2: the operands first, the operators after them
PostfixWindow(op1, op2) ==
    Sp(<<OperandWord(1), OperandWord(2), OperandWord(3), op1, op2>>)

PostfixSources ==
    {ReturnSource(PostfixWindow(c[1], c[2])) : c \in Operators \X Operators}

\* the names a `let` declares: the parameter x, and z, which is unbound
LetNames == {<<"x">>, <<"z">>}

\* the initializers of a `let`: the names, an unbound name, and literals
LetInitializers == LetNames \cup {<<"w">>, <<"1">>, <<"2">>}

\* function f ( x int ) int
\* { let NAME bool = INITIALIZER ; print 1 ; print NAME ; }
\* (the statement after the `let` is the one the recovery of a failed `let`
\* skips, mod.rs:56-76, so that the reference that follows is still parsed)
LetPrintSource(name, initializer) ==
    HeaderF
    \o Sp(<<<<"{">>, KwLet, name, KwBool, <<"=">>, initializer, <<";">>,
            KwPrint, <<"1">>, <<";">>, KwPrint, name, <<";">>, <<"}">>>>)

LetPrintSources ==
    {LetPrintSource(name, initializer) :
        name \in LetNames, initializer \in LetInitializers}

Sources ==
    WindowSources \cup DefineSources \cup DeclareSources
    \cup {LetSource, TwoParameterSource, ArityMismatchSource, UnboundLetSource}
    \cup RedefineSources \cup InfixSources \cup ParenSources
    \cup LetPrintSources \cup PostfixSources

(***************************************************************************)
(* parse_root (parser/mod.rs) as a state machine: one step per iteration   *)
(* of its `while !parser_context.tokens.is_empty()` loop                   *)
(***************************************************************************)
VARIABLES source, tokens, symbols_table, errors, root, pc

\* the state of the symbol table run: the table, the chain of frames, the
\* ids handed out by define, the tables as they were at each push_scope
\* that is still open, whether the build checks arithmetic overflow, and
\* "run" or "panic" ("idle" while parse_root runs)
VARIABLES table, frames, allocated, saved, table_pc

parser_vars == <<source, tokens, symbols_table, errors, root, pc>>

table_vars == <<table, frames, allocated, saved, overflow_checks, table_pc>>

vars == <<source, tokens, symbols_table, errors, root, pc,
          table, frames, allocated, saved, overflow_checks, table_pc>>

\* no symbol table run
TableIdle ==
    /\ table = SymbolsTable_new
    /\ frames = <<>>
    /\ allocated = <<>>
    /\ saved = <<>>
    /\ table_pc = "idle"

\* the ParserContext of parse_root
parser_context == Context(source, tokens, symbols_table, errors)

\* the loop test: "parse" while tokens are left, "done" once parse_root
\* returns (root, errors)
LoopTest(queue) == IF queue = <<>> THEN "done" ELSE "parse"

\* parse_root up to its loop: lex, Root::new(), the context, push_scope
Init ==
    /\ source \in Sources
    /\ tokens = lex(source)
    /\ symbols_table = push_scope(SymbolsTable_new)
    /\ errors = <<>>
    /\ root = <<>>
    /\ pc = LoopTest(tokens)
    /\ overflow_checks \in BOOLEAN
    /\ TableIdle

\* an iteration that hands parse_statement a copy of the queue and keeps
\* its own
Iterate_keeps_queue(result) ==
    /\ ~result.panic
    /\ tokens' = tokens
    /\ symbols_table' = result.ctx.symbols_table
    /\ errors' = result.ctx.errors
    /\ root' = IF result.result # None THEN Append(root, result.result) ELSE root
    /\ pc' = LoopTest(tokens)
    /\ UNCHANGED <<source, table_vars>>

\* one iteration whose parse_statement returns
Iterate(result) ==
    /\ ~result.panic
    /\ tokens' = result.ctx.tokens
    /\ symbols_table' = result.ctx.symbols_table
    /\ errors' = result.ctx.errors
    /\ root' = IF result.result # None THEN Append(root, result.result) ELSE root
    /\ pc' = LoopTest(result.ctx.tokens)
    /\ UNCHANGED <<source, table_vars>>

\* one iteration whose parse_statement panics: parse_root returns nothing
Abort(result) ==
    /\ result.panic
    /\ pc' = "panic"
    /\ UNCHANGED <<source, tokens, symbols_table, errors, root, table_vars>>

ParseStatement ==
    /\ pc = "parse"
    /\ LET result == parse_statement(parser_context, TRUE) IN
       Iterate(result) \/ Abort(result)

Next == ParseStatement

Spec == Init /\ [][Next]_vars

(***************************************************************************)
(* The SymbolsTable (parser/symbols_table.rs) as a state machine: one step *)
(* per call of push_scope, pop_scope or define, next to a chain of scope   *)
(* frames that is searched from the innermost frame outwards               *)
(***************************************************************************)
\* the most defines of one run, and the deepest scope stack
MaxDefines == 3
MaxDepth == 3

TableNames == {<<"x">>, <<"y">>}

TableTypes == {"Integer", "Boolean"}

\* the table after push_scope, k calls of define and pop_scope: the pushed
\* scope is dropped with its names, next_id keeps the k increments; None
\* when one of the k calls panics, which leaves no table
after_inner_defines(st, k) ==
    IF overflow_checks /\ st.next_id + k >= U16Size THEN None
    ELSE [st EXCEPT !.next_id = (@ + k) % U16Size]

\* the values of next_id the runs start from: right after the first define,
\* and two defines before the last value of a u16
StartIds == {1, U16Size - 2}

\* a frame of the chain holds the two maps of a Scope, for the names of its
\* own scope only
Frame_new == [name_to_id |-> EmptyMap, id_to_type |-> EmptyMap]

Frames_push(chain) == <<Frame_new>> \o chain

Frames_pop(chain) == IF chain = <<>> THEN chain ELSE Tail(chain)

\* define mutates the top frame only
Frames_define(chain, name, id, vtype) ==
    IF chain = <<>> THEN chain
    ELSE <<Scope_define(Head(chain), name, id, vtype)>> \o Tail(chain)

\* the innermost frame among hits
Innermost(hits) == CHOOSE i \in hits : \A j \in hits : i <= j

\* lookup_id, searched from the innermost frame outwards
Frames_get_id(chain, name) ==
    LET hits == {i \in DOMAIN chain : name \in DOMAIN chain[i].name_to_id} IN
    IF hits = {} THEN None
    ELSE Scope_lookup_id(chain[Innermost(hits)], name)

\* lookup_type, searched from the innermost frame outwards
Frames_lookup_type(chain, id) ==
    LET hits == {i \in DOMAIN chain : id \in DOMAIN chain[i].id_to_type} IN
    IF hits = {} THEN None
    ELSE Scope_lookup_type(chain[Innermost(hits)], id)

Frames_lookup(chain, name) ==
    LET id == Frames_get_id(chain, name) IN
    IF id = None THEN None ELSE Frames_lookup_type(chain, id.value)

\* the parser is not running
ParserIdle ==
    /\ source = <<>>
    /\ tokens = <<>>
    /\ symbols_table = SymbolsTable_new
    /\ errors = <<>>
    /\ root = <<>>
    /\ pc = "idle"

\* SymbolsTable::new(), push_scope, define("x", Integer), and then possibly
\* an inner scope with defines that was popped again
TableInit ==
    /\ ParserIdle
    /\ overflow_checks \in BOOLEAN
    /\ \E n \in StartIds :
          table = after_inner_defines(
                      define(push_scope(SymbolsTable_new), <<"x">>, "Integer"), n - 1)
    /\ frames = Frames_define(Frames_push(<<>>), <<"x">>, 0, "Integer")
    /\ allocated = <<0>>
    /\ saved = <<>>
    /\ table_pc = "run"

PushScope ==
    /\ table_pc = "run"
    /\ scope(table) < MaxDepth
    /\ table' = push_scope(table)
    /\ frames' = Frames_push(frames)
    /\ saved' = <<table>> \o saved
    /\ UNCHANGED <<allocated, overflow_checks, table_pc, parser_vars>>

PopScope ==
    /\ table_pc = "run"
    /\ table' = pop_scope(table)
    /\ frames' = Frames_pop(frames)
    /\ saved' = IF saved = <<>> THEN saved ELSE Tail(saved)
    /\ UNCHANGED <<allocated, overflow_checks, table_pc, parser_vars>>

Define(name, vtype) ==
    /\ table_pc = "run"
    /\ Len(allocated) <= MaxDefines
    /\ ~define_panics(table)
    /\ table' = define(table, name, vtype)
    /\ frames' = Frames_define(frames, name, table.next_id, vtype)
    /\ allocated' = Append(allocated, table.next_id)
    /\ UNCHANGED <<saved, overflow_checks, table_pc, parser_vars>>

\* the define whose increment of next_id panics
DefineOverflow ==
    /\ table_pc = "run"
    /\ Len(allocated) <= MaxDefines
    /\ define_panics(table)
    /\ table_pc' = "panic"
    /\ UNCHANGED <<table, frames, allocated, saved, overflow_checks, parser_vars>>

TableNext ==
    \/ PushScope
    \/ PopScope
    \/ \E name \in TableNames, vtype \in TableTypes : Define(name, vtype)
    \/ DefineOverflow

TableSpec == TableInit /\ [][TableNext]_vars

(***************************************************************************)
(* The tree parse_root returns                                             *)
(***************************************************************************)
\* the nodes of an expression
RECURSIVE ExprNodes(_)
ExprNodes(e) ==
    {e} \cup
    CASE e.etype \in {"Arithmetic", "Comparison", "Boolean"} ->
            ExprNodes(e.left) \cup ExprNodes(e.right)
      [] e.etype = "FunctionCall" ->
            UNION {ExprNodes(e.passed_arguments[i]) : i \in DOMAIN e.passed_arguments}
      [] OTHER -> {}

\* the statements of a statement, itself included
RECURSIVE StmtNodes(_)
StmtNodes(s) ==
    {s} \cup
    CASE s.stype = "Compound" ->
            UNION {StmtNodes(s.statements[i]) : i \in DOMAIN s.statements}
      [] s.stype = "FunctionDefine" -> StmtNodes(s.body)
      [] OTHER -> {}

\* the expression a statement holds, if any
StmtExprs(s) ==
    CASE s.stype \in {"Declare", "Assign", "Print", "Expression"} -> {s.expression}
      [] s.stype = "FunctionReturn" ->
            IF s.expression = None THEN {} ELSE {s.expression.value}
      [] OTHER -> {}

\* the expression nodes below a statement
NodesOf(s) == UNION {ExprNodes(e) : e \in UNION {StmtExprs(n) : n \in StmtNodes(s)}}

RootStatements == UNION {StmtNodes(root[i]) : i \in DOMAIN root}

RootExpressions == UNION {NodesOf(root[i]) : i \in DOMAIN root}

\* the names of the signatures of Root's FunctionDefine and FunctionDeclare
RootSignatureNames ==
    {root[i].signature.name :
        i \in {j \in DOMAIN root : root[j].stype \in {"FunctionDefine", "FunctionDeclare"}}}

\* the diagnostics whose format string is fmt
ErrorsWith(fmt) == {i \in DOMAIN errors : errors[i].message[1] = fmt}

(***************************************************************************)
(* Totality and termination                                                *)
(***************************************************************************)
\* C1: parse_root never panics, whatever the source
C1_NeverPanics == pc # "panic"

\* the suffixes of the queue that are not empty
Suffixes(queue) == {SubSeq(queue, i, Len(queue)) : i \in DOMAIN queue}

\* parse_statement, started on queue with the table st, returns with a
\* strictly shorter queue unless it panics
Shortens(queue, st) ==
    LET result == parse_statement(Context(source, queue, st, <<>>), TRUE) IN
    result.panic \/ Len(result.ctx.tokens) < Len(queue)

\* C2: every call of parse_statement on a non-empty queue leaves the queue
\* strictly shorter: each iteration of the root loop does, so does a call
\* one scope down that starts at any token of the source, and the loop has
\* ended only with the queue empty
C2_Terminates ==
    /\ \A queue \in Suffixes(tokens) : Shortens(queue, push_scope(symbols_table))
    /\ [][pc = "parse" => (pc' = "panic" \/ Len(tokens') < Len(tokens))]_vars
    /\ [](pc = "done" <=> tokens = <<>>)

\* the loop has ended after a FunctionDefine was built from a `{` pushed
\* back to the queue and after diagnostics were recorded
C2_Witness ==
    /\ pc = "done"
    /\ errors # <<>>
    /\ \E i \in DOMAIN root : root[i].stype = "FunctionDefine"

(***************************************************************************)
(* Well-formed functions                                                   *)
(***************************************************************************)
\* the VType a type word stands for
TypeNamed(word) ==
    CASE word = KwInt -> "Integer"
      [] word = KwBool -> "Boolean"
      [] word = KwVoid -> "Void"

\* the node type and operator an operator word stands for
OperatorNamed(word) ==
    CASE word = <<"*">> -> [etype |-> "Arithmetic", op |-> "Multiply"]
      [] word = <<"/">> -> [etype |-> "Arithmetic", op |-> "Divide"]
      [] word = <<"+">> -> [etype |-> "Arithmetic", op |-> "Add"]
      [] word = <<"-">> -> [etype |-> "Arithmetic", op |-> "Subtract"]
      [] word = <<"<">> -> [etype |-> "Comparison", op |-> "IsLess"]
      [] word = <<">", "=">> -> [etype |-> "Comparison", op |-> "IsGreaterOrEqual"]
      [] word = <<"=", "=">> -> [etype |-> "Comparison", op |-> "IsEqual"]
      [] word = <<"!", "=">> -> [etype |-> "Comparison", op |-> "IsNotEqual"]
      [] word = KwAnd -> [etype |-> "Boolean", op |-> "And"]
      [] word = KwOr -> [etype |-> "Boolean", op |-> "Or"]

\* Root is one FunctionDefine of name(p t) r whose body returns p op p, both
\* operands being the Variable of the parameter's id
IsDefineOf(name, t, r, op) ==
    /\ Len(root) = 1
    /\ root[1].stype = "FunctionDefine"
    /\ root[1].signature.name = name
    /\ root[1].signature.return_type = TypeNamed(r)
    /\ Len(root[1].signature.parameters) = 1
    /\ root[1].signature.parameters[1].vtype = TypeNamed(t)
    /\ root[1].body.stype = "Compound"
    /\ Len(root[1].body.statements) = 1
    /\ LET P == root[1].signature.parameters[1].id
           s == root[1].body.statements[1]
       IN  /\ s.stype = "FunctionReturn"
           /\ s.expression # None
           /\ s.expression.value.etype = OperatorNamed(op).etype
           /\ s.expression.value.op = OperatorNamed(op).op
           /\ s.expression.value.left = Expression_new_variable(TypeNamed(t), P)
           /\ s.expression.value.right = Expression_new_variable(TypeNamed(t), P)

\* C3: the source `function NAME(p T) R { return p OP p; }` is parsed without
\* a panic and without a diagnostic into one FunctionDefine of NAME, R and one
\* parameter (P, T) whose body is a Compound of one FunctionReturn of
\* Variable(P) OP Variable(P)
C3_WellFormedDefine ==
    source \in DefineSources =>
        /\ pc # "panic"
        /\ pc = "done" =>
            /\ errors = <<>>
            /\ \A c \in DefineCases :
                 source = DefineSource(c[1], c[2], c[3], c[4], c[5])
                     => IsDefineOf(c[1], c[3], c[4], c[5])

\* a definition with a comparison of its parameter has been parsed
C3_Witness ==
    /\ pc = "done"
    /\ source \in DefineSources
    /\ Len(root) = 1
    /\ root[1].stype = "FunctionDefine"
    /\ \E n \in NodesOf(root[1]) : n.etype = "Comparison"

\* Root is one FunctionDeclare of name and r
IsDeclareOf(name, r) ==
    /\ Len(root) = 1
    /\ root[1].stype = "FunctionDeclare"
    /\ root[1].signature.name = name
    /\ root[1].signature.return_type = TypeNamed(r)

\* C4: the source `function NAME(p T) R;` or `function NAME() R;` is parsed
\* without a panic and without a diagnostic into one FunctionDeclare of NAME
\* and R, after which the scope depth is 1 and p is not visible; and whenever
\* an iteration of the root loop appends a FunctionDeclare, the scope depth
\* after it is 1 and none of its parameters' ids is visible
C4_Declare ==
    /\ [](source \in DeclareSources =>
            /\ pc # "panic"
            /\ pc = "done" =>
                /\ errors = <<>>
                /\ scope(symbols_table) = 1
                /\ \A c \in DeclareCases :
                     source \in {DeclareSource(c[1], c[2], c[3], c[4]),
                                 DeclareSource0(c[1], c[4])}
                         => /\ IsDeclareOf(c[1], c[4])
                            /\ get_id(symbols_table, c[2]) = None
                            /\ lookup(symbols_table, c[2]) = None)
    /\ [][(Len(root') = Len(root) + 1 /\ root'[Len(root')].stype = "FunctionDeclare")
            => /\ scope(symbols_table') = 1
               /\ Head(symbols_table'.scopes).name_to_id = EmptyMap]_vars

\* a declaration with a parameter has been parsed
C4_Witness ==
    /\ pc = "done"
    /\ source \in DeclareSources
    /\ Len(root) = 1
    /\ root[1].stype = "FunctionDeclare"
    /\ Len(root[1].signature.parameters) = 1

(***************************************************************************)
(* Statements at top level                                                 *)
(***************************************************************************)
StatementKeywords == {KwLet, KwSet, KwPrint, KwReturn, KwExpress}

\* the queue starts with one of the statement keywords
AtStatementKeyword ==
    /\ pc = "parse"
    /\ Head(tokens).type = "Identifier"
    /\ Head(tokens).name \in StatementKeywords

\* queue without its tokens up to and including the first Symbol of syms;
\* nothing is left when there is none
DropThrough(queue, syms) ==
    LET found == {i \in DOMAIN queue : \E sym \in syms : IsSym(queue[i], sym)} IN
    IF found = {} THEN <<>>
    ELSE SubSeq(queue, (CHOOSE i \in found : \A j \in found : i <= j) + 1, Len(queue))

\* an iteration that starts at a statement keyword at scope depth 1 returns,
\* leaves Root as it is, records first a diagnostic at the keyword's line and
\* column_begin, and leaves the queue without the tokens through the first
\* Symbol of syms
RejectsKeyword(syms) ==
    (AtStatementKeyword /\ scope(symbols_table) = 1) =>
        /\ pc' # "panic"
        /\ root' = root
        /\ Len(errors') > Len(errors)
        /\ errors'[Len(errors) + 1].line = Head(tokens).info.line
        /\ errors'[Len(errors) + 1].column_begin = Head(tokens).info.column_begin
        /\ tokens' = DropThrough(Tail(tokens), syms)

\* the source `let x int = 10;` ends with an empty Root and a diagnostic
LetSourceRejected == (source = LetSource /\ pc = "done") => (root = <<>> /\ errors # <<>>)

\* C5 as stated: a statement keyword at scope depth 1 adds nothing to Root,
\* records a diagnostic at the keyword, and drops the tokens through the
\* next `;`
C5_DropsThroughSemicolon ==
    [][RejectsKeyword({"Semicolon"})]_vars /\ []LetSourceRejected

\* C5: a statement keyword at scope depth 1 adds nothing to Root, records a
\* diagnostic at the keyword, and drops the tokens through the next `;` or
\* `}`, whichever comes first (all of them when there is none); the source
\* `let x int = 10;` ends with an empty Root and a diagnostic
C5_DropsThroughSemicolonOrBrace ==
    [][RejectsKeyword({"Semicolon", "RightBrace"})]_vars /\ []LetSourceRejected

\* a keyword statement at top level was rejected and its recovery stopped at
\* a `}` with tokens left behind it
C5_Witness ==
    /\ scope(symbols_table) = 1
    /\ root = <<>>
    /\ ErrorsWith("'print' statement is not allowed here") # {}
    /\ tokens # <<>>
    /\ \E i \in DOMAIN lex(source) :
         /\ IsSym(lex(source)[i], "RightBrace")
         /\ tokens = SubSeq(lex(source), i + 1, Len(lex(source)))
         /\ \A j \in 1..i : ~IsSym(lex(source)[j], "Semicolon")

(***************************************************************************)
(* The shape of the tree                                                   *)
(***************************************************************************)
\* C6: every statement of Root is a FunctionDefine or a FunctionDeclare
C6_RootHoldsFunctions ==
    \A i \in DOMAIN root : root[i].stype \in {"FunctionDefine", "FunctionDeclare"}

\* the ids of the Variable nodes of the expression a statement holds
VariableIds(s) ==
    {n.identifier :
        n \in {m \in UNION {ExprNodes(e) : e \in StmtExprs(s)} : m.etype = "Variable"}}

\* the ids of the Declare statements of a statement
DeclaredIds(s) == {n.identifier : n \in {m \in StmtNodes(s) : m.stype = "Declare"}}

\* statements, in parse order, use no id other than those of known and of
\* the Declare statements before the use
RECURSIVE Resolved(_, _)
Resolved(statements, known) ==
    IF statements = <<>> THEN TRUE
    ELSE
    LET s == Head(statements) IN
    /\ CASE s.stype = "FunctionDefine" ->
               Resolved(<<s.body>>,
                        {s.signature.parameters[i].id : i \in DOMAIN s.signature.parameters})
         [] s.stype = "Compound" -> Resolved(s.statements, known)
         [] s.stype = "Assign" -> s.identifier \in known /\ VariableIds(s) \subseteq known
         [] OTHER -> VariableIds(s) \subseteq known
    /\ Resolved(Tail(statements), known \cup DeclaredIds(s))

\* C7: every Variable node and every Assign statement of Root carries the id
\* of a Parameter of the enclosing function or of a Declare statement that
\* comes earlier in the tree
C7_IdsResolved == Resolved(root, {})

\* the FunctionCall nodes of Root
RootCalls == {n \in RootExpressions : n.etype = "FunctionCall"}

\* C8: every FunctionCall node of Root names a registered function and has
\* as many arguments as that function's signature has parameters
C8_CallsMatchSignature ==
    \A n \in RootCalls :
        /\ get_function(symbols_table, n.name) # None
        /\ Len(n.passed_arguments)
             = Len(get_function(symbols_table, n.name).value.parameters)

\* Root holds a call with an argument, and a call with another count of
\* arguments was turned down
C8_Witness ==
    /\ \E n \in RootCalls : Len(n.passed_arguments) = 1
    /\ ErrorsWith("mismatched argument length, expected {}, got {}") # {}

\* C9: once parse_root has returned, every FunctionCall node of Root names a
\* function whose FunctionDefine or FunctionDeclare is in Root, and every
\* registered function has such a statement
C9_RegisteredHaveStatements ==
    pc = "done" =>
        /\ \A n \in RootCalls : n.name \in RootSignatureNames
        /\ DOMAIN symbols_table.functions \subseteq RootSignatureNames

\* queue starts with `let IDENT void`
IsLetVoid(queue) ==
    /\ Len(queue) >= 3
    /\ queue[1].type = "Identifier" /\ queue[1].name = KwLet
    /\ queue[2].type = "Identifier"
    /\ queue[3].type = "Type" /\ queue[3].vtype = "Void"

\* parse_statement, started on a queue of `let IDENT void` with the table
\* st, returns no statement, one diagnostic at the type token, and st
TurnsDownVoid(queue, st) ==
    LET result == parse_statement(Context(source, queue, st, <<>>), TRUE) IN
    /\ ~result.panic
    /\ result.result = None
    /\ result.ctx.symbols_table = st
    /\ Len(result.ctx.errors) = 1
    /\ result.ctx.errors[1].message
         = <<"variable '{}' has incomplete type 'void'", queue[2].name>>
    /\ result.ctx.errors[1].column_begin = queue[3].info.column_begin

\* C10: no Declare statement of Root is of type Void; a `let IDENT void`
\* anywhere in the source, parsed one scope down, yields a diagnostic at the
\* type token, no statement, and the symbol table it started with; and an
\* iteration of the root loop that starts at `let IDENT void` below top level
\* records that diagnostic, adds nothing to Root and leaves the symbol table
\* as it is
C10_NoVoidDeclare ==
    /\ \A queue \in {q \in Suffixes(tokens) : IsLetVoid(q)} :
          TurnsDownVoid(queue, push_scope(symbols_table))
    /\ [](\A s \in RootStatements : s.stype = "Declare" => s.vtype # "Void")
    /\ [][(pc = "parse" /\ scope(symbols_table) > 1 /\ IsLetVoid(tokens)) =>
            /\ pc' # "panic"
            /\ root' = root
            /\ symbols_table' = symbols_table
            /\ Len(errors') = Len(errors) + 1
            /\ errors'[Len(errors')].message
                 = <<"variable '{}' has incomplete type 'void'", tokens[2].name>>
            /\ errors'[Len(errors')].column_begin = tokens[3].info.column_begin]_vars

\* the root loop has ended with a `let` of type void turned down below top
\* level, the name still unbound
C10_Witness ==
    /\ pc = "done"
    /\ scope(symbols_table) = 2
    /\ root = <<>>
    /\ errors # <<>>
    /\ errors[Len(errors)].message = <<"variable '{}' has incomplete type 'void'", <<"q">>>>
    /\ get_id(symbols_table, <<"q">>) = None

(***************************************************************************)
(* Void, and the names of functions                                        *)
(***************************************************************************)
\* the Parameters of the signatures of Root's statements
RootParameters ==
    UNION {{s.signature.parameters[i] : i \in DOMAIN s.signature.parameters} :
           s \in {n \in RootStatements : n.stype \in {"FunctionDefine", "FunctionDeclare"}}}

\* C11: no Parameter, no Variable node and no Declare statement of Root is
\* of type Void
C11_VoidOnlyReturned ==
    /\ \A parameter \in RootParameters : parameter.vtype # "Void"
    /\ \A n \in RootExpressions : n.etype = "Variable" => n.vtype # "Void"
    /\ \A s \in RootStatements : s.stype = "Declare" => s.vtype # "Void"

\* the positions of Root's FunctionDefine and FunctionDeclare statements
RootFunctions ==
    {i \in DOMAIN root : root[i].stype \in {"FunctionDefine", "FunctionDeclare"}}

\* C12: the signature names of Root's FunctionDefine and FunctionDeclare
\* statements are pairwise distinct
C12_DistinctNames ==
    \A i, j \in RootFunctions :
        root[i].signature.name = root[j].signature.name => i = j

\* Root holds a declaration and a definition
C12_Witness ==
    /\ pc = "done"
    /\ \E i, j \in RootFunctions :
         root[i].stype = "FunctionDeclare" /\ root[j].stype = "FunctionDefine"

\* the queue starts, at top level, with `function NAME` for a registered
\* NAME
AtRegisteredFunction ==
    /\ pc = "parse"
    /\ scope(symbols_table) = 1
    /\ Len(tokens) >= 2
    /\ tokens[1].type = "Identifier" /\ tokens[1].name = KwFunction
    /\ tokens[2].type = "Identifier"
    /\ tokens[2].name \in DOMAIN symbols_table.functions

\* C13: no step removes or changes a registered signature; a step that
\* starts at `function NAME` for a registered NAME panics or fails with a
\* diagnostic and no statement; and NAME declared with `;` and then defined
\* with a body ends in a panic after the declaration, with no diagnostic
C13_RedefinitionFatal ==
    /\ [][\A name \in DOMAIN symbols_table.functions :
            /\ name \in DOMAIN symbols_table'.functions
            /\ symbols_table'.functions[name] = symbols_table.functions[name]]_vars
    /\ [][AtRegisteredFunction =>
            (pc' = "panic" \/ (root' = root /\ Len(errors') > Len(errors)))]_vars
    /\ [](source \in RedefineSources =>
            /\ pc # "done"
            /\ pc = "panic" =>
                 /\ errors = <<>>
                 /\ Len(root) = 1
                 /\ root[1].stype = "FunctionDeclare")

\* the parse was aborted at the definition of a declared function
C13_Witness ==
    /\ pc = "panic"
    /\ source \in RedefineSources
    /\ Len(root) = 1
    /\ root[1].signature.name \in DOMAIN symbols_table.functions

(***************************************************************************)
(* Operator precedence                                                     *)
(***************************************************************************)
\* the precedence level of an operator word
LevelOf(word) ==
    CASE word \in {<<"*">>, <<"/">>} -> 3
      [] word \in {<<"+">>, <<"-">>} -> 2
      [] word \in {KwAnd, KwOr} -> 0
      [] OTHER -> 1

\* the Literal expression of the k-th operand
OperandNode(k) ==
    CASE k % 8 = 0 -> [etype |-> "Literal", literal |-> [ltype |-> "BooleanLiteral", value |-> FALSE]]
      [] k % 8 = 5 -> [etype |-> "Literal", literal |-> [ltype |-> "BooleanLiteral", value |-> TRUE]]
      [] OTHER -> [etype |-> "Literal", literal |-> [ltype |-> "IntegerLiteral", value |-> k % 8]]

\* the node of an operator word over two trees
ReferenceNode(word, left, right) ==
    IF OperatorNamed(word).etype = "Arithmetic"
    THEN [etype |-> "Arithmetic", vtype |-> "Integer", op |-> OperatorNamed(word).op,
          left |-> left, right |-> right]
    ELSE [etype |-> OperatorNamed(word).etype, op |-> OperatorNamed(word).op,
          left |-> left, right |-> right]

\* the tree of the operands lo..hi, ops[k] standing between the operands k
\* and k + 1: the root is the last operator of the lowest level
RECURSIVE Reference(_, _, _)
Reference(ops, lo, hi) ==
    IF lo = hi THEN OperandNode(lo)
    ELSE
    LET lowest == CHOOSE l \in 0..3 :
                    /\ \E k \in lo..(hi - 1) : LevelOf(ops[k]) = l
                    /\ \A k \in lo..(hi - 1) : LevelOf(ops[k]) >= l
        split == CHOOSE k \in lo..(hi - 1) :
                    /\ LevelOf(ops[k]) = lowest
                    /\ \A j \in (k + 1)..(hi - 1) : LevelOf(ops[j]) > lowest
    IN  ReferenceNode(ops[split], Reference(ops, lo, split), Reference(ops, split + 1, hi))

\* Root is one FunctionDefine whose body is one FunctionReturn of expression
ReturnsOnly(expression) ==
    /\ Len(root) = 1
    /\ root[1].stype = "FunctionDefine"
    /\ root[1].body.statements = <<[stype |-> "FunctionReturn", expression |-> Some(expression)]>>

\* the words of a text whose words are each followed by a blank
RECURSIVE WordsOf(_, _, _, _)
WordsOf(text, i, word, words) ==
    IF i > Len(text) THEN words
    ELSE IF text[i] = " "
         THEN WordsOf(text, i + 1, <<>>, Append(words, word))
         ELSE WordsOf(text, i + 1, Append(word, text[i]), words)

\* the operators of the window of a ReturnSource: seven words come before
\* the window and two after it
WindowOperators(text) ==
    LET words == WordsOf(text, 1, <<>>, <<>>) IN
    [k \in 1..((Len(words) - 10) \div 2) |-> words[7 + 2 * k]]

\* C14: the window `operand (op operand)*` over literals is parsed, without
\* a panic and without a diagnostic, into the tree of the left-associative
\* reference parser with the levels 3, 2, 1, 0; `1 + 2 * 3 - 4` gives
\* Subtract(Add(1, Multiply(2, 3)), 4)
C14_PrecedenceTree ==
    source \in InfixSources =>
        /\ pc # "panic"
        /\ pc = "done" =>
            /\ errors = <<>>
            /\ WindowOperators(source) \in InfixCases
            /\ source = InfixSource[WindowOperators(source)]
            /\ ReturnsOnly(Reference(WindowOperators(source), 1,
                                     Len(WindowOperators(source)) + 1))
            /\ source = InfixSource[<<<<"+">>, <<"*">>, <<"-">>>>] =>
                 ReturnsOnly(
                     ReferenceNode(<<"-">>,
                         ReferenceNode(<<"+">>, OperandNode(1),
                             ReferenceNode(<<"*">>, OperandNode(2), OperandNode(3))),
                         OperandNode(4)))

\* `1 + 2 * 3 - 4` has been parsed
C14_Witness ==
    /\ pc = "done"
    /\ source = InfixSource[<<<<"+">>, <<"*">>, <<"-">>>>]
    /\ Len(root) = 1
    /\ root[1].body.statements[1].expression.value.op = "Subtract"
    /\ root[1].body.statements[1].expression.value.left.right.op = "Multiply"

OperatorNodes == {"Arithmetic", "Comparison", "Boolean"}

\* the precedence of the operator of an operator node
NodeLevel(n) ==
    CASE n.etype = "Arithmetic" -> IF n.op \in {"Multiply", "Divide"} THEN 3 ELSE 2
      [] n.etype = "Comparison" -> 1
      [] n.etype = "Boolean" -> 0

\* an operator node below the Arithmetic node n binds tighter than n, or as
\* tight as n when it is the left child
ShapedByPrecedence(n) ==
    /\ n.left.etype \in OperatorNodes => NodeLevel(n.left) >= NodeLevel(n)
    /\ n.right.etype \in OperatorNodes => NodeLevel(n.right) > NodeLevel(n)

\* every Arithmetic node of Root is shaped by precedence
ShapedAlways ==
    \A n \in RootExpressions : n.etype = "Arithmetic" => ShapedByPrecedence(n)

\* the only parentheses of the source are those of function headers
HeaderParenthesesOnly ==
    LET queue == lex(source) IN
    \A i \in DOMAIN queue :
        (IsSym(queue[i], "LeftParen") \/ IsSym(queue[i], "RightParen")) =>
            \E j \in 1..(i - 2) :
                /\ queue[j].type = "Identifier" /\ queue[j].name = KwFunction
                /\ IsSym(queue[j + 2], "LeftParen")
                /\ i \in {j + 2} \cup {k \in (j + 3)..Len(queue) :
                                        /\ IsSym(queue[k], "RightParen")
                                        /\ \A l \in (j + 3)..(k - 1) : queue[l].type \in {"Identifier", "Type"}}

\* C15: in every expression tree produced by parse_expression, an operator
\* node below an Arithmetic node binds tighter than the node, or as tight
\* when it is the left child. The claim states this for all accepted
\* windows, parenthesized sub-expressions included; it is stated here for
\* the accepted windows without parentheses alone, which the claim covers
\* as well
C15_ShapedWithoutParentheses == HeaderParenthesesOnly => ShapedAlways

(***************************************************************************)
(* Parameter lists and argument lists                                      *)
(***************************************************************************)
\* C16: `function f(a int, b int) int;` followed by
\* `function g() int { return invoke f(1); }` ends with exactly one
\* diagnostic, "mismatched argument length, expected 2, got 1", and without
\* a FunctionReturn in the tree
C16_ArityDiagnostic ==
    (source = ArityMismatchSource /\ pc # "parse") =>
        /\ pc = "done"
        /\ Len(errors) = 1
        /\ Len(errors[1].message) = 3
        /\ errors[1].message[1] = "mismatched argument length, expected {}, got {}"
        /\ errors[1].message[2] = 2
        /\ errors[1].message[3] = 1
        /\ \A s \in RootStatements : s.stype # "FunctionReturn"

\* C17: `function f(a int, b int) int;` ends without a diagnostic and with
\* a FunctionDeclare of two parameters, a before b, of distinct ids
C17_TwoParameters ==
    (source = TwoParameterSource /\ pc # "parse") =>
        /\ pc = "done"
        /\ errors = <<>>
        /\ Len(root) = 1
        /\ root[1].stype = "FunctionDeclare"
        /\ Len(root[1].signature.parameters) = 2
        /\ root[1].signature.parameters[1].id # root[1].signature.parameters[2].id

(***************************************************************************)
(* Diagnostics and recovery                                                *)
(***************************************************************************)
\* token is an identifier other than `invoke` that st does not bind
IsUnbound(token, st) ==
    /\ token.type = "Identifier"
    /\ token.name # KwInvoke
    /\ get_id(st, token.name) = None

\* the diagnostic of the unbound identifier token
UnboundDiagnostic(error, token) ==
    /\ error.message = <<"identifier '{}' not declared in the current scope", token.name>>
    /\ error.line = token.info.line
    /\ error.column_begin = token.info.column_begin
    /\ error.column_end = token.info.column_end

\* parse_expression on window with the table st fails with one diagnostic,
\* that of the unbound identifier token
FailsUnbound(window, st, token) ==
    LET result == parse_expression(Context(source, window, st, <<>>)) IN
    /\ ~result.panic
    /\ result.result = None
    /\ Len(result.ctx.errors) = 1
    /\ UnboundDiagnostic(result.ctx.errors[1], token)

\* queue starts with a literal, an operator and an identifier
IsSecondOperand(queue) ==
    /\ Len(queue) >= 3
    /\ queue[1].type \in {"IntegerLiteral", "BooleanLiteral"}
    /\ queue[2].type \in {"Arithmetic", "Comparison", "Boolean"}
    /\ queue[3].type = "Identifier"

\* C18: wherever in a source an expression window starts with an unbound
\* identifier, or with a literal, an operator and an unbound identifier,
\* parse_expression fails with the diagnostic "identifier `<name>` not declared
\* in the current scope" at that identifier; and
\* `function f() int { let y int = z; }` ends with that diagnostic for z in
\* the list and without a Declare in the tree
C18_UnboundIdentifier ==
    /\ \A queue \in Suffixes(tokens) :
         LET st == push_scope(symbols_table) IN
         /\ IsUnbound(queue[1], st) => FailsUnbound(queue, st, queue[1])
         /\ (IsSecondOperand(queue) /\ IsUnbound(queue[3], st))
               => FailsUnbound(queue, st, queue[3])
    /\ []((source = UnboundLetSource /\ pc # "parse") =>
            /\ pc = "done"
            /\ \E i \in DOMAIN errors :
                 /\ errors[i].message
                      = <<"identifier '{}' not declared in the current scope", <<"z">>>>
                 /\ errors[i].line = 1
                 /\ errors[i].column_begin = 32
            /\ \A s \in RootStatements : s.stype # "Declare")

\* `function f() int { let y int = z; }` has been parsed into a function
\* with an empty body
C18_Witness ==
    /\ pc = "done"
    /\ source = UnboundLetSource
    /\ Len(root) = 1
    /\ root[1].body.statements = <<>>
    /\ ErrorsWith("identifier '{}' not declared in the current scope") # {}

Terminators == {"Semicolon", "RightBrace"}

\* the positions of queue whose token has the span of error
TokensAt(queue, error) ==
    {i \in DOMAIN queue :
        /\ queue[i].info.line = error.line
        /\ queue[i].info.column_begin = error.column_begin}

\* C19: an iteration of the root loop that records a diagnostic and returns
\* no statement leaves the queue that follows the first `;` or `}` at or
\* after the token of its first diagnostic (nothing if there is none)
C19_ResumesAfterTerminator ==
    [][(pc = "parse" /\ pc' # "panic" /\ root' = root /\ Len(errors') > Len(errors)) =>
         \A i \in TokensAt(tokens, errors'[Len(errors) + 1]) :
             tokens' = DropThrough(SubSeq(tokens, i, Len(tokens)), Terminators)]_vars

\* every diagnostic of inner is a diagnostic of outer
KeepsDiagnostics(inner, outer) ==
    \A i \in DOMAIN inner : \E j \in DOMAIN outer : outer[j] = inner[i]

\* the queue starts `function NAME ( P TYPE ) TYPE { return (`
AtReturnOfParenthesis(queue) ==
    /\ Len(queue) >= 10
    /\ queue[1].type = "Identifier" /\ queue[1].name = KwFunction
    /\ queue[2].type = "Identifier"
    /\ IsSym(queue[3], "LeftParen")
    /\ queue[4].type = "Identifier"
    /\ queue[5].type = "Type"
    /\ IsSym(queue[6], "RightParen")
    /\ queue[7].type = "Type"
    /\ IsSym(queue[8], "LeftBrace")
    /\ queue[9].type = "Identifier" /\ queue[9].name = KwReturn
    /\ IsSym(queue[10], "LeftParen")

\* the diagnostics that the sub-context of the parenthesized sub-expression
\* records, when the queue starts `function NAME ( P TYPE ) TYPE { return (`
\* and the parentheses and braces are balanced; <<>> otherwise
ParenthesisDiagnostics(queue, st) ==
    LET body == take_balanced(SubSeq(queue, 9, Len(queue)),
                              "LeftBrace", "RightBrace", 1, <<>>)
        window == collect_until_semicolon(Tail(body.sub_tokens), <<>>).expr_tokens
        taken == take_balanced(Tail(window), "LeftParen", "RightParen", 1, <<>>)
        bound == define(push_scope(st), queue[4].name, queue[5].vtype)
        inner == parse_expression(Context(source, taken.sub_tokens, bound, <<>>))
    IN  IF body.depth = 0 /\ taken.depth = 0 /\ ~inner.panic
        THEN inner.ctx.errors
        ELSE <<>>

\* C20: when a function body starts with `return (` and the step does not
\* panic, every diagnostic that the sub-context of the parenthesized
\* sub-expression records is in the diagnostics list after the step
C20_DiagnosticsKept ==
    [][(pc = "parse" /\ pc' # "panic" /\ AtReturnOfParenthesis(tokens)) =>
         KeepsDiagnostics(ParenthesisDiagnostics(tokens, symbols_table), errors')]_vars

(***************************************************************************)
(* Missing terminators, spans, scope depth                                 *)
(***************************************************************************)
\* the statements that end with `;`
TerminatedStatements == {"Declare", "Assign", "Print", "Expression", "FunctionReturn"}

\* no token of the source is a `;`
Unterminated ==
    LET queue == lex(source) IN
    \A i \in DOMAIN queue : ~IsSym(queue[i], "Semicolon")

\* C21: when the source holds no `;` at all, the tree holds no let, set,
\* print, express or return statement
C21_UnterminatedRejected ==
    Unterminated => \A s \in RootStatements : s.stype \notin TerminatedStatements

\* the spans of the tokens of the source
TokenSpans ==
    LET queue == lex(source) IN
    {[line |-> queue[i].info.line,
      column_begin |-> queue[i].info.column_begin,
      column_end |-> queue[i].info.column_end] : i \in DOMAIN queue}

\* the span of a diagnostic
SpanOf(error) ==
    [line |-> error.line, column_begin |-> error.column_begin,
     column_end |-> error.column_end]

\* C22: every diagnostic has line >= 1 and column_begin <= column_end, and
\* its span is the span of a token of the source
C22_SpansOrdered ==
    LET spans == TokenSpans IN
    \A i \in DOMAIN errors :
        /\ errors[i].line >= 1
        /\ errors[i].column_begin <= errors[i].column_end
        /\ SpanOf(errors[i]) \in spans

\* a diagnostic on a token of several characters that is not on the first line
C22_Witness ==
    \E i \in DOMAIN errors :
        errors[i].line > 1 /\ errors[i].column_begin < errors[i].column_end

\* C23: each time the root loop is about to call parse_statement, the scope
\* depth of the symbol table is 1
C23_RootDepthOne == pc = "parse" => scope(symbols_table) = 1

(***************************************************************************)
(* The symbol table: ids, scopes, the chain of frames                      *)
(***************************************************************************)
\* C24: no define panics, and each define hands out an id greater than
\* every id handed out before it
C24_IdsNeverReused ==
    /\ table_pc # "panic"
    /\ \A i, j \in DOMAIN allocated : i < j => allocated[i] < allocated[j]

\* get_id and lookup give the same for every name in both tables
SameNames(st1, st2) ==
    \A name \in TableNames :
        get_id(st1, name) = get_id(st2, name) /\ lookup(st1, name) = lookup(st2, name)

\* a pop_scope that closes a scope pushed during the run gives every name
\* the get_id and lookup it had before that push_scope
PopRestores ==
    (saved # <<>> /\ saved' = Tail(saved) /\ table' = pop_scope(table))
        => SameNames(table', Head(saved))

\* a define inside a pushed scope of a name the outer scope binds gives the
\* name an id that differs from the outer one
ShadowIsFresh ==
    (saved # <<>> /\ allocated' # allocated)
        => \A name \in TableNames :
              (get_id(Head(saved), name) # None
                  /\ get_id(table', name) # get_id(table, name))
                      => get_id(table', name) # get_id(Head(saved), name)

\* C25: push_scope, defines and pop_scope give back the get_id and lookup of
\* every name as they were before the push, and inside the pushed scope a
\* re-defined outer name has an id different from the outer one
C25_ScopeRestores == [][PopRestores /\ ShadowIsFresh]_vars

\* C26: after any sequence of push_scope, pop_scope and define, the table
\* and the chain of frames give the same get_id and the same lookup for
\* every name
C26_SameAsChain ==
    \A name \in TableNames :
        /\ get_id(table, name) = Frames_get_id(frames, name)
        /\ lookup(table, name) = Frames_lookup(frames, name)

\* in an inner scope, one name is bound by the inner frame and by an outer
\* one, and another name by an outer frame only
C26_Witness ==
    /\ Len(frames) >= 2
    /\ \E name \in TableNames :
          /\ name \in DOMAIN frames[1].name_to_id
          /\ name \in DOMAIN frames[2].name_to_id
          /\ get_id(table, name) # Scope_lookup_id(frames[2], name)
    /\ \E name \in TableNames :
          /\ name \notin DOMAIN frames[1].name_to_id
          /\ get_id(table, name) # None

(***************************************************************************)
(* `let`: the name and its initializer                                     *)
(***************************************************************************)
\* the initializers of LetInitializers no scope of the body binds
UnboundInitializers == {<<"w">>, <<"z">>}

\* the statements of the body of the one function of a LetPrintSource
LetBody == IF root = <<>> THEN <<>> ELSE root[1].body.statements

\* the diagnostics that report `name` as undeclared
UndeclaredErrors(name) ==
    {i \in DOMAIN errors :
        errors[i].message
            = <<"identifier '{}' not declared in the current scope", name>>}

\* no initializer mentions the id its own Declare carries
NotSelfVisible ==
    \A s \in RootStatements :
        s.stype = "Declare" =>
            \A e \in ExprNodes(s.expression) :
                e.etype = "Variable" => e.identifier # s.identifier

\* `let NAME bool = INITIALIZER ; print 1 ; print NAME ;` in the body of
\* f(x int), where x has id 0: an initializer that names an unbound name
\* (NAME itself included) fails as undeclared and no Declare is emitted;
\* otherwise the Declare carries the fresh id 1, an x in the initializer is
\* the parameter (id 0, Integer), and the `print NAME` after it is id 1
LetResolves(name, initializer) ==
    IF initializer \in UnboundInitializers
    THEN /\ UndeclaredErrors(initializer) # {}
         /\ \A s \in RootStatements : s.stype # "Declare"
    ELSE /\ Len(LetBody) = 3
         /\ LetBody[1].stype = "Declare"
         /\ LetBody[1].identifier = 1
         /\ LetBody[1].vtype = "Boolean"
         /\ initializer = <<"x">> =>
                LetBody[1].expression = Expression_new_variable("Integer", 0)
         /\ LetBody[3] = Statement_new_print(Expression_new_variable("Boolean", 1))

\* C27: in `let x T = e;` the name x is bound only after e has been parsed:
\* an x inside e resolves to the id x had before the statement, or fails as
\* undeclared when x was unbound, never to the id of the emitted Declare;
\* the statements after the `let` resolve x to the Declare's id
C27_BoundAfterInitializer ==
    /\ NotSelfVisible
    /\ \A name \in LetNames, initializer \in LetInitializers :
            (source = LetPrintSource(name, initializer) /\ pc = "done")
                => LetResolves(name, initializer)

\* `let x bool = x ; print 1 ; print x ;` was parsed: the Declare shadows the
\* parameter x and its initializer refers to the parameter
C27_Witness ==
    /\ pc = "done"
    /\ source = LetPrintSource(<<"x">>, <<"x">>)
    /\ Len(LetBody) = 3
    /\ LetBody[1].stype = "Declare"
    /\ LetBody[1].expression.etype = "Variable"
    /\ LetBody[3].expression.identifier = LetBody[1].identifier

\* the diagnostics of the failed `let` statements
FailedLetErrors == ErrorsWith("no expression parsed for 'let' statement")

\* the reference to `name` after a failed `let name ...` finds what the table
\* held before the statement: the parameter x (id 0, Integer), or nothing
\* for z, which is then reported as undeclared after the `let` was reported
ResolvesAsBefore(name) ==
    IF name = <<"x">>
    THEN LetBody = <<Statement_new_print(Expression_new_variable("Integer", 0))>>
    ELSE /\ LetBody = <<>>
         /\ \E i \in FailedLetErrors : \E j \in UndeclaredErrors(name) : i < j

\* C28: a `let` whose initializer does not parse emits no Declare and leaves
\* the symbol table as it was: the name is not bound, no id is consumed, and
\* a later reference to the name in the same scope is reported as undeclared
C28_FailedLetBindsNothing ==
    \A name \in LetNames, initializer \in UnboundInitializers :
        (source = LetPrintSource(name, initializer) /\ pc = "done")
            => /\ FailedLetErrors # {}
               /\ \A s \in RootStatements : s.stype # "Declare"
               /\ \A e \in RootExpressions :
                    e.etype = "Variable" => e.identifier = 0
               /\ ResolvesAsBefore(name)

(***************************************************************************)
(* The shape of the windows parse_expression accepts                       *)
(***************************************************************************)
\* the index of the first token of the queue from i on that satisfies
\* Test, or Len(queue) + 1
FirstFrom(queue, i, Test(_)) ==
    LET hits == {j \in i..Len(queue) : Test(queue[j])} IN
    IF hits = {} THEN Len(queue) + 1
    ELSE CHOOSE j \in hits : \A k \in hits : j <= k

IsReturnToken(token) == token.type = "Identifier" /\ token.name = KwReturn

IsWindowEnd(token) == IsSym(token, "Semicolon") \/ IsSym(token, "RightBrace")

IsBlockToken(token) == IsSym(token, "Semicolon") \/ IsSym(token, "LeftBrace")

\* the source is `function <header> { return WINDOW` followed by `;` or `}`
\* and the window holds no brace: then WINDOW, unless it is empty (a bare
\* return), is what the `return` arm hands to parse_expression
ReturnWindowOf(queue) ==
    LET r == FirstFrom(queue, 1, IsReturnToken)
        end == FirstFrom(queue, r + 1, IsWindowEnd)
    IN  IF /\ r \in 3..Len(queue)
           /\ queue[1].type = "Identifier" /\ queue[1].name = KwFunction
           /\ IsSym(queue[r - 1], "LeftBrace")
           /\ FirstFrom(queue, 1, IsBlockToken) = r - 1
           /\ end <= Len(queue)
           /\ \A j \in (r + 1)..(end - 1) : ~IsSym(queue[j], "LeftBrace")
        THEN Some(SubSeq(queue, r + 1, end - 1))
        ELSE None

\* the index of the `)` that closes the `(` at position i - 1, or 0
RECURSIVE ClosingParenthesis(_, _, _)
ClosingParenthesis(window, i, depth) ==
    IF i > Len(window) THEN 0
    ELSE IF IsSym(window[i], "LeftParen")
    THEN ClosingParenthesis(window, i + 1, depth + 1)
    ELSE IF IsSym(window[i], "RightParen")
    THEN IF depth = 0 THEN i ELSE ClosingParenthesis(window, i + 1, depth - 1)
    ELSE ClosingParenthesis(window, i + 1, depth)

IsOperatorToken(token) == token.type \in {"Arithmetic", "Comparison", "Boolean"}

IsAtomToken(token) ==
    \/ token.type \in {"IntegerLiteral", "BooleanLiteral"}
    \/ token.type = "Identifier" /\ token.name # KwInvoke

\* the window is operand (op operand)*, read from an operand (operand =
\* TRUE) or from after one; an operand is a literal, a variable, an
\* `invoke` call or a parenthesized window of the same shape
RECURSIVE Alternates(_, _)
Alternates(window, operand) ==
    IF window = <<>> THEN ~operand
    ELSE IF ~operand
    THEN IsOperatorToken(Head(window)) /\ Alternates(Tail(window), TRUE)
    ELSE IF IsAtomToken(Head(window)) THEN Alternates(Tail(window), FALSE)
    ELSE IF IsSym(Head(window), "LeftParen")
    THEN LET close == ClosingParenthesis(window, 2, 0) IN
         /\ close # 0
         /\ Alternates(SubSeq(window, 2, close - 1), TRUE)
         /\ Alternates(SubSeq(window, close + 1, Len(window)), FALSE)
    ELSE IF Head(window).type = "Identifier" /\ Len(window) >= 3
    THEN LET close == ClosingParenthesis(window, 4, 0) IN
         /\ window[2].type = "Identifier"
         /\ IsSym(window[3], "LeftParen")
         /\ close # 0
         /\ \/ close = 4
            \/ Alternates(SubSeq(window, 4, close - 1), TRUE)
         /\ Alternates(SubSeq(window, close + 1, Len(window)), FALSE)
    ELSE FALSE

\* the tree's one function returns an expression
ReturnsExpression ==
    /\ root # <<>>
    /\ root[1].stype = "FunctionDefine"
    /\ root[1].body.statements # <<>>
    /\ root[1].body.statements[1].stype = "FunctionReturn"
    /\ root[1].body.statements[1].expression # None

\* C29: parse_expression returns an expression only for windows of the shape
\* operand (op operand)*: a window in which operands and operators do not
\* alternate, such as `1 2 +` or `+ 1 2`, yields None and a diagnostic,
\* never an expression tree
C29_OnlyAlternatingWindows ==
    LET window == ReturnWindowOf(lex(source)) IN
    (/\ pc = "done"
     /\ window # None
     /\ window.value # <<>>
     /\ ~Alternates(window.value, TRUE))
        => (~ReturnsExpression /\ errors # <<>>)

(***************************************************************************)
(* The positions of the tokens                                             *)
(***************************************************************************)
WordCharacters == Letters \cup Digits \cup {"_"}

PairCharacters == {"=", "!", "<", ">"}

SingleCharacters == {"+", "-", "*", "/", "(", ")", "{", "}", ";"}

\* the first position of the run of word characters that holds position i
RunBegin(text, i) ==
    CHOOSE b \in 1..i :
        /\ \A j \in b..i : text[j] \in WordCharacters
        /\ b = 1 \/ text[b - 1] \notin WordCharacters

\* the position after the digits that begin at position i
DigitsEnd(text, i) ==
    CHOOSE e \in (i + 1)..(Len(text) + 1) :
        /\ \A j \in i..(e - 1) : text[j] \in Digits
        /\ e = Len(text) + 1 \/ text[e] \notin Digits

\* a word begins at position i: a run of word characters begins there, or
\* the digits that begin the run end there
WordBegins(text, i) ==
    LET b == RunBegin(text, i) IN
    \/ i = b
    \/ /\ text[b] \in Digits
       /\ text[i] \notin Digits
       /\ \A j \in b..(i - 1) : text[j] \in Digits

\* the `=` at position i is the second character of a two-character token
RECURSIVE SecondOfPair(_, _)
SecondOfPair(text, i) ==
    /\ i > 1
    /\ text[i] = "="
    /\ text[i - 1] \in PairCharacters
    /\ ~SecondOfPair(text, i - 1)

\* the positions of the text at which a token begins; the digits of a
\* number that does not fit an i32 give no token
TokenBegins(text) ==
    {i \in 1..Len(text) :
        \/ text[i] \in SingleCharacters
        \/ text[i] \in PairCharacters /\ ~SecondOfPair(text, i)
        \/ /\ text[i] \in WordCharacters
           /\ WordBegins(text, i)
           /\ text[i] \in Digits =>
                ParseI32(SubSeq(text, i, DigitsEnd(text, i) - 1)) # None}

\* the 1-based number of the line that holds position p
LineOfPosition(text, p) ==
    1 + Cardinality({j \in 1..(p - 1) : text[j] = "\n"})

\* the 1-based position of p within its line
ColumnOfPosition(text, p) ==
    LET newlines == {j \in 1..(p - 1) : text[j] = "\n"} IN
    IF newlines = {} THEN p
    ELSE p - (CHOOSE j \in newlines : \A k \in newlines : k <= j)

\* C30: for every token the lexer emits, line is the 1-based number of the
\* source line holding the token and column_begin is the 1-based position of
\* the token's first character within that line, also when skipped
\* characters such as `,` or an integer literal that overflows i32 precede
\* the token on the same line
C30_TokenPositions ==
    LET queue == lex(source)
        begins == TokenBegins(source)
    IN  /\ Len(queue) = Cardinality(begins)
        /\ \A p \in begins :
            LET k == Cardinality({q \in begins : q <= p}) IN
            /\ queue[k].info.line = LineOfPosition(source, p)
            /\ queue[k].info.column_begin = ColumnOfPosition(source, p)

=============================================================================
